---- MODULE Spec2Model ----
(***************************************************************************)
(* Transfer executor, heuristic progress estimator and process lifecycle   *)
(* controller of android_file_handler_adb.                                 *)
(*                                                                         *)
(* Two executors of the repository are modelled; `impl' says which one the *)
(* instance is:                                                            *)
(*   "legacy" : src/adb_manager.py  ADBManager (pull_folder,               *)
(*              cancel_transfer), driven by gui/main_window.py             *)
(*   "core"   : src/core/file_transfer.py  ADBFileTransfer                 *)
(*              (_execute_folder_transfer_command, cancel_transfer)        *)
(* ADBFileTransfer derives from ProgressTracker only (file_transfer.py:18) *)
(* and neither class defines parse_progress (it lives on ADBCommandRunner, *)
(* adb_command.py:55, held as self.runner), so `self.parse_progress(line)' *)
(* at file_transfer.py:231 raises AttributeError, which the handler at     *)
(* file_transfer.py:289 turns into a failed run.                           *)
(***************************************************************************)
EXTENDS Integers, Sequences, FiniteSets, TLC

(* ------------------------------ bounds -------------------------------- *)
MaxRuns == 2
MaxLines == 1
MaxTime == 2
MaxCancels == 1
MaxSoloRuns == 1
MaxGenRuns == 2
MaxEstLines == 101
MaxEstTime == 20
MaxFiles == 2
MaxSize == 1
MaxPieces == 2
MaxRunnerTime == 16
MaxPostedLines == 2

(* ------------------------- program constants -------------------------- *)
GracePeriod == 2
RunTimeout == 15
ThreadArgsPassed == 6
ThreadParams == 5
TimeInterval == 2
TimeCap == 95
ActivityCap == 90
ActivityWindow == 50
LargeTransferLines == 100
TimeIncrement == 10
ActivityIncrement == 5
ActivityDivisor == 1000
TimeDivisor == 60
MaxActivityFactor == 50
MaxTimeFactor == 40

None == -1
\* last_progress of the legacy executor is a float: activity_factor +
\* time_factor = line_count/1000 + elapsed/60.  It is kept exactly, as a
\* multiple of 1/Scale percent (Scale = lcm(1000, 60)).
Scale == 3000

Min(a, b) == IF a < b THEN a ELSE b
Max(a, b) == IF a > b THEN a ELSE b

Runs == 1..MaxRuns
Impls == {"legacy", "core"}

VARIABLES
  impl,                    \* which executor class the instance is
  now,                     \* time.time(), whole seconds
  current_process,         \* the executor's handle slot: 0 (None) or a run's child
  child,                   \* the spawned subprocesses, one per run
  run,                     \* the worker threads / executor runs
  current_transfer_id,     \* the caller's generation counter
  transfer_animation_job,  \* GUI: animation running
  status_label,            \* GUI: what the status label shows and who wrote it
  button,                  \* GUI: mode of the start/cancel button
  cancel,                  \* the caller thread inside cancel_transfer
  nstarted,                \* runs started so far
  ncancels,                \* cancels issued so far
  dedup,                   \* a FileDeduplicator call: its arguments and results
  parsing,                 \* an ADBCommandRunner.parse_progress call
  after_queue,             \* ProgressHandler: the updates posted with after(0, ...)
  delivered,               \* ProgressHandler: the updates Tk has run, in order
  ops,                     \* a call of a transfer method of the core and the local path
  tracker,                 \* a ProgressTracker and the percentages it handed on
  stalled                  \* output lines in a row that did not raise last_progress

\* The updates a ProgressHandler has posted and Tk has run.
tkvars == <<after_queue, delivered>>

\* The variables of the library calls and of the ProgressHandler, which no
\* step of the GUI-driven runs touches.
libvars == <<dedup, parsing, tkvars, ops, tracker, stalled>>

\* The variables of the executors, their callers and the GUI.
appvars == <<impl, now, current_process, child, run, current_transfer_id,
             transfer_animation_job, status_label, button, cancel, nstarted, ncancels>>

vars == <<appvars, libvars>>

(* ------------------------- output lines ------------------------------- *)
\* A line is represented by what each regular expression of parse_progress
\* captures on it (None when the expression does not match).
Line(paren, complete, transferred, files) ==
  [paren |-> paren, complete |-> complete, transferred |-> transferred, files |-> files]

NoSignalLine == Line(None, None, None, None)
FilesPulled100 == Line(100, None, None, 100)
OutOfRange150Complete20 == Line(150, 20, None, None)

SampleLines == {NoSignalLine, FilesPulled100}
EstLines == {NoSignalLine, OutOfRange150Complete20}

InRange(pct) == 0 <= pct /\ pct <= 100

\* parse_progress without the `0 <= pct <= 100' tests
ParseProgressUnchecked(text_line) ==
  IF text_line.paren # None THEN text_line.paren
  ELSE IF text_line.complete # None THEN text_line.complete
  ELSE IF text_line.transferred # None THEN text_line.transferred
  ELSE text_line.files

\* adb_manager.py:323-358
ADBManager_parse_progress(text_line) ==
  IF text_line.paren # None /\ InRange(text_line.paren) THEN text_line.paren
  ELSE IF text_line.complete # None /\ InRange(text_line.complete) THEN text_line.complete
  ELSE IF text_line.transferred # None /\ InRange(text_line.transferred) THEN text_line.transferred
  ELSE IF text_line.files # None /\ InRange(text_line.files) THEN text_line.files
  ELSE None

(* --------------------- the heuristic estimator ------------------------ *)
\* min(line_count / 1000, 50) and min(elapsed_time / 60, 40), in 1/Scale percent
activity_factor(line_count) ==
  Min((Scale \div ActivityDivisor) * line_count, MaxActivityFactor * Scale)

time_factor(elapsed_time) ==
  Min((Scale \div TimeDivisor) * elapsed_time, MaxTimeFactor * Scale)

\* The time-based branch taken whenever last_progress < 95
TimeBranchAnyTime(last_progress, time_since_last_update) ==
  last_progress < TimeCap * Scale

\* adb_manager.py:419  `time_since_last_update >= 2.0 and last_progress < 95'
TimeBranch(last_progress, time_since_last_update) ==
  time_since_last_update >= TimeInterval /\ last_progress < TimeCap * Scale

\* The time-based candidate capped at 100 instead of 95
TimeCandidateCappedAt100(line_count, elapsed_time, last_progress) ==
  IF line_count > LargeTransferLines
  THEN Min(activity_factor(line_count) + time_factor(elapsed_time), 100 * Scale)
  ELSE Min(last_progress + TimeIncrement * Scale, 100 * Scale)

\* adb_manager.py:420-425
TimeCandidate(line_count, elapsed_time, last_progress) ==
  IF line_count > LargeTransferLines
  THEN Min(activity_factor(line_count) + time_factor(elapsed_time), TimeCap * Scale)
  ELSE Min(last_progress + TimeIncrement * Scale, TimeCap * Scale)

\* adb_manager.py:427  `elif line_count % 50 == 0 and last_progress < 90'
ActivityBranch(line_count, last_progress) ==
  line_count % ActivityWindow = 0 /\ last_progress < ActivityCap * Scale

\* adb_manager.py:428-429
ActivityCandidate(line_count, last_progress) ==
  LET increment == Max(1, Min(ActivityIncrement,
                              ActivityCap \div (line_count \div ActivityWindow + 1)))
  IN Min(last_progress + increment * Scale, ActivityCap * Scale)

\* The candidate of a branch committed whatever its value
ShouldCommitAlways(should_update, new_progress, last_progress) ==
  should_update

\* adb_manager.py:432  `if should_update and new_progress > last_progress'
ShouldCommit(should_update, new_progress, last_progress) ==
  should_update /\ new_progress > last_progress

\* int(new_progress), adb_manager.py:433
ToInt(progress) == progress \div Scale

\* TransferProgressEstimator.estimate_complex_progress with the estimate of
\* a large transfer built on last_progress
EstimateFromLastProgress(line_count, elapsed_time, last_progress) ==
  IF elapsed_time >= TimeInterval /\ last_progress < TimeCap
  THEN IF line_count > LargeTransferLines
       THEN ToInt(Min(last_progress * Scale + activity_factor(line_count)
                        + time_factor(elapsed_time), TimeCap * Scale))
       ELSE ToInt(Min(last_progress * Scale + TimeIncrement * Scale, TimeCap * Scale))
  ELSE None

\* TransferProgressEstimator.estimate_complex_progress,
\* core/progress_tracker.py:186-199: None, or the candidate as an int
estimate_complex_progress(line_count, elapsed_time, last_progress) ==
  IF elapsed_time >= TimeInterval /\ last_progress < TimeCap
  THEN IF line_count > LargeTransferLines
       THEN ToInt(Min(activity_factor(line_count) + time_factor(elapsed_time),
                      TimeCap * Scale))
       ELSE ToInt(Min(last_progress * Scale + TimeIncrement * Scale, TimeCap * Scale))
  ELSE None

\* One iteration of the loop body of ADBManager.pull_folder,
\* adb_manager.py:404-435, on the run record r at time t:
\* the record after the line, with `reported' the last value handed to
\* _update_progress, `pct' what parse_progress found on the line,
\* `signals' 1 once a line carried an explicit percentage and `lowered' true
\* once such a line set last_progress below the value it had.
PullFolderLine(r, line, t) ==
  LET line_count == r.line_count + 1
      pct == ADBManager_parse_progress(line)
      elapsed_time == t - r.start_time
      time_since_last_update == t - r.last_update_time
      byTime == TimeBranch(r.last_progress, time_since_last_update)
      byActivity == ~byTime /\ ActivityBranch(line_count, r.last_progress)
      new_progress ==
        IF byTime THEN TimeCandidate(line_count, elapsed_time, r.last_progress)
        ELSE IF byActivity THEN ActivityCandidate(line_count, r.last_progress)
        ELSE r.last_progress
  IN IF pct # None
     THEN [r EXCEPT !.line_count = line_count,
                    !.last_progress = pct * Scale,
                    !.last_update_time = t,
                    !.reported = pct,
                    !.pct = pct,
                    !.signals = 1,
                    !.lowered = @ \/ pct * Scale < r.last_progress]
     ELSE IF ShouldCommit(byTime \/ byActivity, new_progress, r.last_progress)
     THEN [r EXCEPT !.line_count = line_count,
                    !.last_progress = new_progress,
                    !.last_update_time = t,
                    !.reported = ToInt(new_progress),
                    !.pct = None]
     ELSE [r EXCEPT !.line_count = line_count, !.pct = None]

(* ------------------------------ state --------------------------------- *)
NoChild == [state |-> "none", returncode |-> None, sigterm |-> FALSE, sigkill |-> FALSE]

NoRun == [pc |-> "idle", transfer_id |-> 0, line_count |-> 0, last_progress |-> 0,
          start_time |-> 0, last_update_time |-> 0, reported |-> None, pct |-> None,
          signals |-> 0, lowered |-> FALSE,
          returned |-> "none", ending |-> "none", last_status |-> "none",
          spawned_over |-> 0, handle_after |-> None, args |-> <<>>]

NoCancel == [pc |-> "idle", cancelled |-> FALSE, wait_start |-> 0,
             found |-> "none", raised |-> FALSE, terminated |-> 0, signalled |-> FALSE,
             killed |-> 0, waited |-> 0, cleared |-> 0, handle_after |-> None]

\* What the status label shows, the generation of the run whose callback
\* wrote it (0: the GUI thread), and whether that generation was still the
\* current one when it wrote.
\* No FileDeduplicator call has been made.
NoDedup ==
  [pc |-> "idle", source_files |-> <<>>, target_files |-> <<>>,
   is_remote_source |-> FALSE, is_remote_target |-> FALSE,
   adb_command_runner |-> FALSE, local_files |-> <<>>, remote_files |-> <<>>,
   target_hash_values |-> {}, files_to_transfer |-> <<>>,
   duplicate_files |-> <<>>, is_remote |-> FALSE, local_stat |-> <<>>,
   remote_stat |-> <<>>, bytes_saved |-> 0, files_saved |-> 0]

\* No parse_progress call has been made.
NoParsing == [pc |-> "idle", text_line |-> <<>>, result |-> None]

\* No transfer method of the core has been called.
NoOps ==
  [pc |-> "idle", layer |-> "none", op |-> "none", local0 |-> "absent",
   local |-> "absent", seen |-> "none", makedirs_ok |-> TRUE, invoked |-> 0,
   returncode |-> None, result |-> FALSE]

\* A ProgressTracker as its constructor leaves it, progress_tracker.py:13-28,
\* with no percentage reported and none handed to the callback.
NoTracker ==
  [pc |-> "idle", total_bytes |-> 0, transferred_bytes |-> 0, calls |-> 0,
   reported |-> None, callback |-> None]

\* The library calls are not part of a GUI-driven run.
NoLibrary ==
  /\ dedup = NoDedup /\ parsing = NoParsing
  /\ after_queue = <<>> /\ delivered = <<>>
  /\ ops = NoOps /\ tracker = NoTracker /\ stalled = 0

Label(msg, by) ==
  [msg |-> msg, by |-> by, stale |-> by # 0 /\ by # current_transfer_id]

Init ==
  /\ impl \in Impls
  /\ now = 0
  /\ current_process = 0
  /\ child = [r \in Runs |-> NoChild]
  /\ run = [r \in Runs |-> NoRun]
  /\ current_transfer_id = 0
  /\ transfer_animation_job = FALSE
  /\ status_label = [msg |-> "ready", by |-> 0, stale |-> FALSE]
  /\ button = "transfer"
  /\ cancel = NoCancel
  /\ nstarted = 0
  /\ ncancels = 0
  /\ NoLibrary

\* AndroidFileHandlerGUI._update_status, main_window.py:254-264: the status
\* callback the executor is given; `by' is the generation of the run that
\* emitted the message (0 for the GUI thread itself).
\* The label after the callback.
UpdateStatus(label, animation, msg, by) ==
  IF animation THEN label ELSE Label(msg, by)

Alive(c) == c # 0 /\ child[c].state = "running"

(* ------------------------ the child process --------------------------- *)
\* The child ends by itself, with a zero or a non-zero status.
ChildExit(c, code) ==
  /\ child[c].state = "running"
  /\ ~child[c].sigterm /\ ~child[c].sigkill
  /\ child' = [child EXCEPT ![c].state = "exited", ![c].returncode = code]
  /\ UNCHANGED <<libvars, impl, now, current_process, run, current_transfer_id,
                 transfer_animation_job, status_label, button, cancel, nstarted, ncancels>>

\* The child is ended by a signal it was sent: returncode -9 or -15.
ChildKilled(c) ==
  /\ child[c].state = "running"
  /\ child[c].sigterm \/ child[c].sigkill
  /\ child' = [child EXCEPT ![c].state = "exited",
                            ![c].returncode = IF child[c].sigkill THEN -9 ELSE -15]
  /\ UNCHANGED <<libvars, impl, now, current_process, run, current_transfer_id,
                 transfer_animation_job, status_label, button, cancel, nstarted, ncancels>>

\* time.time() advances
Tick ==
  /\ now' = now + 1
  /\ UNCHANGED <<libvars, impl, current_process, child, run, current_transfer_id,
                 transfer_animation_job, status_label, button, cancel, nstarted, ncancels>>

(* ------------------------- the caller: start -------------------------- *)
\* start_transfer handing the thread the generation it found, minting none
StartTransferReusingId(r) ==
  /\ cancel.pc = "idle"
  /\ button = "transfer"
  /\ r = nstarted + 1
  /\ nstarted' = r
  /\ run' = [run EXCEPT ![r] = [NoRun EXCEPT !.pc = "start",
                                            !.transfer_id = current_transfer_id]]
  /\ button' = "cancel"
  /\ transfer_animation_job' = TRUE
  /\ status_label' = Label("transferring", 0)
  /\ UNCHANGED <<libvars, impl, now, current_process, child, cancel, ncancels, current_transfer_id>>

\* AndroidFileHandlerGUI.start_transfer, main_window.py:777-803
\* (TransferManager.start_transfer, transfer_manager.py:83-104, mints the
\* generation the same way)
StartTransfer(r) ==
  /\ cancel.pc = "idle"
  /\ button = "transfer"
  /\ r = nstarted + 1
  /\ nstarted' = r
  /\ current_transfer_id' = current_transfer_id + 1
  /\ run' = [run EXCEPT ![r] = [NoRun EXCEPT !.pc = "start",
                                            !.transfer_id = current_transfer_id + 1]]
  /\ button' = "cancel"
  /\ transfer_animation_job' = TRUE
  /\ status_label' = Label("transferring", 0)
  /\ UNCHANGED <<libvars, impl, now, current_process, child, cancel, ncancels>>

(* ------------------------- the worker thread -------------------------- *)
\* _transfer_thread, main_window.py:810-813: a run whose generation is no
\* longer current returns at once; its `finally' does nothing either.
WorkerBegin(r) ==
  /\ run[r].pc = "start"
  /\ run' = [run EXCEPT ![r].pc = IF current_transfer_id # run[r].transfer_id
                                  THEN "done" ELSE "spawn",
                        ![r].ending = IF current_transfer_id # run[r].transfer_id
                                      THEN "stale" ELSE "none"]
  /\ UNCHANGED <<libvars, impl, now, current_process, child, current_transfer_id,
                 transfer_animation_job, status_label, button, cancel, nstarted, ncancels>>

\* pull_folder, adb_manager.py:385-400 / _execute_folder_transfer_command,
\* file_transfer.py:193-209: progress 0, "Starting ...", Popen, handle stored.
\* No check that the slot is empty precedes the assignment.
Spawn(r) ==
  /\ run[r].pc = "spawn"
  /\ child[r].state = "none"
  /\ child' = [child EXCEPT ![r].state = "running"]
  /\ current_process' = r
  /\ run' = [run EXCEPT ![r].pc = "read", ![r].reported = 0,
                        ![r].start_time = now, ![r].last_update_time = now,
                        ![r].last_status = "starting",
                        ![r].spawned_over = IF Alive(current_process)
                                            THEN current_process ELSE 0]
  /\ status_label' = UpdateStatus(status_label, transfer_animation_job, "starting",
                                  run[r].transfer_id)
  /\ UNCHANGED <<libvars, impl, now, current_transfer_id, transfer_animation_job,
                 button, cancel, nstarted, ncancels>>

\* The except clause of the executor, adb_manager.py:457-460 /
\* file_transfer.py:289-292: status "... error: e", slot cleared, False.
\* The run record after it.
Failed(r, why) ==
  [r EXCEPT !.pc = "post", !.returned = "false", !.ending = why, !.last_status = "error",
            !.handle_after = 0]

\* Popen raises (adb binary missing, OS cannot spawn)
SpawnError(r) ==
  /\ run[r].pc = "spawn"
  /\ run' = [run EXCEPT ![r] = Failed([run[r] EXCEPT !.reported = 0], "spawn_error")]
  /\ current_process' = 0
  /\ status_label' = UpdateStatus(status_label, transfer_animation_job, "error",
                                  run[r].transfer_id)
  /\ UNCHANGED <<libvars, impl, now, child, current_transfer_id, transfer_animation_job,
                 button, cancel, nstarted, ncancels>>

\* One line read from the child's merged output.
\* legacy: adb_manager.py:403-437.
\* core: file_transfer.py:212-231, where self.parse_progress does not exist:
\* AttributeError, handled at file_transfer.py:289-292 while the child lives on.
ReadLine(r, line) ==
  /\ run[r].pc = "read"
  /\ child[r].state = "running"
  /\ IF impl = "legacy"
     THEN /\ run' = [run EXCEPT ![r] = [PullFolderLine(run[r], line, now)
                                          EXCEPT !.last_status = "line"]]
          /\ status_label' = UpdateStatus(status_label, transfer_animation_job, "line",
                                          run[r].transfer_id)
          /\ UNCHANGED current_process
     ELSE /\ run' = [run EXCEPT ![r] = Failed([run[r] EXCEPT !.line_count = @ + 1],
                                               "attribute_error")]
          /\ status_label' = UpdateStatus(status_label, transfer_animation_job, "error",
                                          run[r].transfer_id)
          /\ current_process' = 0
  /\ UNCHANGED <<libvars, impl, now, child, current_transfer_id, transfer_animation_job,
                 button, cancel, nstarted, ncancels>>

\* Reading the stream raises (an undecodable byte, an I/O error)
StreamError(r) ==
  /\ run[r].pc = "read"
  /\ child[r].state = "running"
  /\ run' = [run EXCEPT ![r] = Failed(run[r], "stream_error")]
  /\ current_process' = 0
  /\ status_label' = UpdateStatus(status_label, transfer_animation_job, "error",
                                  run[r].transfer_id)
  /\ UNCHANGED <<libvars, impl, now, child, current_transfer_id, transfer_animation_job,
                 button, cancel, nstarted, ncancels>>

\* End of stream, proc.wait() and the exit-code branch,
\* adb_manager.py:439-456 / file_transfer.py:271-288
Finish(r) ==
  /\ run[r].pc = "read"
  /\ child[r].state = "exited"
  /\ LET ok == child[r].returncode = 0
     IN /\ run' = [run EXCEPT ![r].pc = "post",
                              ![r].reported = IF ok THEN 100 ELSE @,
                              ![r].returned = IF ok THEN "true" ELSE "false",
                              ![r].ending = IF ok THEN "exit0" ELSE "exitN",
                              ![r].last_status = IF ok THEN "completed" ELSE "failed",
                              ![r].handle_after = 0]
        /\ status_label' = UpdateStatus(status_label, transfer_animation_job,
                                        IF ok THEN "completed" ELSE "failed",
                                        run[r].transfer_id)
  /\ current_process' = 0
  /\ UNCHANGED <<libvars, impl, now, child, current_transfer_id, transfer_animation_job,
                 button, cancel, nstarted, ncancels>>

\* The worker thread is over: the executor's locals are gone, what the run
\* delivered stays on record.
Returned(r) ==
  [r EXCEPT !.pc = "done", !.line_count = 0, !.last_progress = 0,
            !.start_time = 0, !.last_update_time = 0, !.pct = None, !.signals = 0,
            !.lowered = FALSE]

\* _transfer_thread after the transfer method returned,
\* main_window.py:836-853 (transfer_manager.py:276-302)
WorkerEnd(r) ==
  /\ run[r].pc = "post"
  /\ run' = [run EXCEPT ![r] = Returned(run[r])]
  /\ IF current_transfer_id = run[r].transfer_id
     THEN /\ transfer_animation_job' = FALSE
          /\ button' = "transfer"
          /\ status_label' = IF run[r].returned = "true"
                             THEN Label("transfer_completed", run[r].transfer_id)
                             ELSE status_label
     ELSE UNCHANGED <<transfer_animation_job, button, status_label>>
  /\ UNCHANGED <<libvars, impl, now, current_process, child, current_transfer_id,
                 cancel, nstarted, ncancels>>

(* ------------------------- the caller: cancel ------------------------- *)
\* The `except Exception' clause of cancel_transfer: file_transfer.py:314-315
\* returns False; adb_manager.py:749-751 also reports "Error cancelling
\* transfer".  The handle slot is left as it is.
CancelRaised ==
  /\ cancel' = [cancel EXCEPT !.pc = "return", !.cancelled = FALSE, !.raised = TRUE,
                              !.handle_after = current_process]
  /\ status_label' = IF impl = "legacy"
                     THEN UpdateStatus(status_label, transfer_animation_job,
                                       "error_cancelling", 0)
                     ELSE status_label

\* AndroidFileHandlerGUI.cancel_transfer, main_window.py:605-609, entering
\* cancel_transfer: `if self.current_process is not None',
\* file_transfer.py:297 / adb_manager.py:734
CancelBegin ==
  /\ cancel.pc = "idle"
  /\ button = "cancel"
  /\ ncancels' = ncancels + 1
  /\ cancel' = [NoCancel EXCEPT !.pc = IF current_process = 0 THEN "return"
                                       ELSE IF impl = "core" THEN "poll"
                                       ELSE "terminate",
                                !.found = IF current_process = 0 THEN "no_handle"
                                          ELSE "handle",
                                !.handle_after = IF current_process = 0 THEN 0 ELSE None]
  /\ UNCHANGED <<libvars, impl, now, current_process, child, run, current_transfer_id,
                 transfer_animation_job, status_label, button, nstarted>>

\* cancel_transfer without the test of poll(): on to terminate() at once
CancelPollSkipped ==
  /\ cancel.pc = "poll"
  /\ cancel' = [cancel EXCEPT !.pc = "terminate"]
  /\ UNCHANGED <<libvars, impl, now, current_process, child, run, current_transfer_id,
                 transfer_animation_job, status_label, button, nstarted, ncancels>>

\* file_transfer.py:299-304 (adb_command.py:139-146): the non-blocking poll.
\* An exception of poll (the slot emptied meanwhile) is swallowed.
CancelPoll ==
  /\ cancel.pc = "poll"
  /\ IF current_process # 0 /\ child[current_process].state = "exited"
     THEN /\ current_process' = 0
          /\ cancel' = [cancel EXCEPT !.pc = "return", !.cancelled = FALSE,
                                      !.found = "exited", !.handle_after = 0]
     ELSE /\ cancel' = [cancel EXCEPT !.pc = "terminate",
                                      !.found = IF current_process = 0 THEN "no_handle"
                                                ELSE "running"]
          /\ UNCHANGED current_process
  /\ UNCHANGED <<libvars, impl, now, child, run, current_transfer_id,
                 transfer_animation_job, status_label, button, nstarted, ncancels>>

\* file_transfer.py:306 / adb_manager.py:737: self.current_process.terminate().
\* It raises when the slot was emptied meanwhile (None has no terminate) and
\* when the operating system refuses the signal (os_error).
CancelTerminate(os_error) ==
  /\ cancel.pc = "terminate"
  /\ IF current_process = 0 \/ os_error
     THEN /\ CancelRaised
          /\ UNCHANGED child
     ELSE /\ child' = [child EXCEPT ![current_process].sigterm =
                                       @ \/ child[current_process].state = "running"]
          /\ cancel' = [cancel EXCEPT !.pc = "wait", !.wait_start = now,
                                      !.terminated = current_process,
                                      !.signalled = Alive(current_process)]
          /\ UNCHANGED status_label
  /\ UNCHANGED <<libvars, impl, now, current_process, run, current_transfer_id,
                 transfer_animation_job, button, nstarted, ncancels>>

\* file_transfer.py:307-309 / adb_manager.py:739-741:
\* self.current_process.wait(timeout=2) returns once the child has exited and
\* raises TimeoutExpired when it is still alive after the grace period.
CancelWait ==
  /\ cancel.pc = "wait"
  /\ IF current_process = 0
     THEN CancelRaised
     ELSE /\ UNCHANGED status_label
          /\ \/ /\ child[current_process].state = "exited"
                /\ cancel' = [cancel EXCEPT !.pc = "clear", !.waited = current_process]
             \/ /\ child[current_process].state = "running"
                /\ now - cancel.wait_start >= GracePeriod
                /\ cancel' = [cancel EXCEPT !.pc = "kill"]
  /\ UNCHANGED <<libvars, impl, now, current_process, child, run, current_transfer_id,
                 transfer_animation_job, button, nstarted, ncancels>>

\* file_transfer.py:310 / adb_manager.py:743: self.current_process.kill()
CancelKill ==
  /\ cancel.pc = "kill"
  /\ IF current_process = 0
     THEN /\ CancelRaised
          /\ UNCHANGED child
     ELSE /\ child' = [child EXCEPT ![current_process].sigkill =
                                       @ \/ child[current_process].state = "running"]
          /\ cancel' = [cancel EXCEPT !.pc = "wait_killed", !.killed = current_process]
          /\ UNCHANGED status_label
  /\ UNCHANGED <<libvars, impl, now, current_process, run, current_transfer_id,
                 transfer_animation_job, button, nstarted, ncancels>>

\* file_transfer.py:311 / adb_manager.py:744: self.current_process.wait()
CancelWaitKilled ==
  /\ cancel.pc = "wait_killed"
  /\ IF current_process = 0
     THEN CancelRaised
     ELSE /\ child[current_process].state = "exited"
          /\ cancel' = [cancel EXCEPT !.pc = "clear", !.waited = current_process]
          /\ UNCHANGED status_label
  /\ UNCHANGED <<libvars, impl, now, current_process, child, run, current_transfer_id,
                 transfer_animation_job, button, nstarted, ncancels>>

\* file_transfer.py:312-313 / adb_manager.py:746-748: the slot is cleared and
\* True returned (the legacy manager also reports "Transfer cancelled by user")
CancelClear ==
  /\ cancel.pc = "clear"
  /\ current_process' = 0
  /\ cancel' = [cancel EXCEPT !.pc = "return", !.cancelled = TRUE,
                              !.cleared = current_process, !.handle_after = 0]
  /\ status_label' = IF impl = "legacy"
                     THEN UpdateStatus(status_label, transfer_animation_job,
                                       "cancelled", 0)
                     ELSE status_label
  /\ UNCHANGED <<libvars, impl, now, child, run, current_transfer_id,
                 transfer_animation_job, button, nstarted, ncancels>>

\* AndroidFileHandlerGUI.cancel_transfer after the manager returned,
\* main_window.py:611-632 (transfer_manager.py:198-208)
CancelReturn ==
  /\ cancel.pc = "return"
  /\ current_transfer_id' = current_transfer_id + 1
  /\ transfer_animation_job' = FALSE
  /\ status_label' = Label(IF cancel.cancelled THEN "cancelled_by_user"
                           ELSE "cancellation_failed", 0)
  /\ button' = "transfer"
  /\ cancel' = NoCancel
  /\ UNCHANGED <<libvars, impl, now, current_process, child, run, nstarted, ncancels>>

(* --------------------------- specification ---------------------------- *)
Next ==
  \/ \E r \in Runs : nstarted < MaxRuns /\ StartTransfer(r)
  \/ \E r \in Runs : WorkerBegin(r)
  \/ \E r \in Runs : Spawn(r)
  \/ \E r \in Runs : SpawnError(r)
  \/ \E r \in Runs : \E line \in SampleLines :
       run[r].line_count < MaxLines /\ ReadLine(r, line)
  \/ \E r \in Runs : StreamError(r)
  \/ \E r \in Runs : Finish(r)
  \/ \E r \in Runs : WorkerEnd(r)
  \/ \E r \in Runs : \E code \in {0, 1} : ChildExit(r, code)
  \/ \E r \in Runs : ChildKilled(r)
  \/ (now < MaxTime /\ cancel.pc = "wait" /\ Tick)
  \/ (ncancels < MaxCancels /\ CancelBegin)
  \/ CancelPoll
  \/ \E os_error \in BOOLEAN : CancelTerminate(os_error)
  \/ CancelWait
  \/ CancelKill
  \/ CancelWaitKilled
  \/ CancelClear
  \/ CancelReturn

Spec == Init /\ [][Next]_vars

\* One transfer at a time and its cancellation: the program as it runs when
\* the user starts a transfer only after the previous worker thread is over.
NextSolo ==
  \/ \E r \in 1..MaxSoloRuns : nstarted < MaxSoloRuns /\ StartTransfer(r)
  \/ \E r \in 1..MaxSoloRuns : WorkerBegin(r)
  \/ \E r \in 1..MaxSoloRuns : Spawn(r)
  \/ \E r \in 1..MaxSoloRuns : SpawnError(r)
  \/ \E r \in 1..MaxSoloRuns : \E line \in SampleLines :
       run[r].line_count < MaxLines /\ ReadLine(r, line)
  \/ \E r \in 1..MaxSoloRuns : StreamError(r)
  \/ \E r \in 1..MaxSoloRuns : Finish(r)
  \/ \E r \in 1..MaxSoloRuns : WorkerEnd(r)
  \/ \E r \in 1..MaxSoloRuns : \E code \in {0, 1} : ChildExit(r, code)
  \/ \E r \in 1..MaxSoloRuns : ChildKilled(r)
  \/ (now < MaxTime /\ cancel.pc = "wait" /\ Tick)
  \/ (ncancels < MaxCancels /\ CancelBegin)
  \/ CancelPoll
  \/ \E os_error \in BOOLEAN : CancelTerminate(os_error)
  \/ CancelWait
  \/ CancelKill
  \/ CancelWaitKilled
  \/ CancelClear
  \/ CancelReturn

SpecSolo == Init /\ [][NextSolo]_vars

\* One long transfer left alone: the executor's loop over many output lines
\* while the clock runs, up to the exit of the child.
NextEst ==
  \/ \E r \in Runs : nstarted = 0 /\ StartTransfer(r)
  \/ \E r \in Runs : WorkerBegin(r)
  \/ \E r \in Runs : Spawn(r)
  \/ \E r \in Runs : \E line \in EstLines :
       run[r].line_count < MaxEstLines /\ ReadLine(r, line)
  \/ \E r \in Runs : \E code \in {0, 1} : ChildExit(r, code)
  \/ \E r \in Runs : Finish(r)
  \/ \E r \in Runs : WorkerEnd(r)
  \/ \E r \in Runs : now < MaxEstTime /\ run[r].pc = "read" /\ Tick

SpecEst == Init /\ [][NextEst]_vars

\* The same long transfer with the lines counted that left the estimate
\* where it was: ReadLine, and stalled the number of lines in a row, up to
\* the one just read, that carried no explicit percentage and did not raise
\* last_progress.
MaxFwdLines == 150
MaxFwdTime == 3
ZeroComplete == Line(None, 0, None, None)
FwdLines == {NoSignalLine, ZeroComplete}

ReadLineCounting(r, line) ==
  /\ run[r].pc = "read"
  /\ child[r].state = "running"
  /\ IF impl = "legacy"
     THEN /\ run' = [run EXCEPT ![r] = [PullFolderLine(run[r], line, now)
                                          EXCEPT !.last_status = "line"]]
          /\ status_label' = UpdateStatus(status_label, transfer_animation_job, "line",
                                          run[r].transfer_id)
          /\ UNCHANGED current_process
     ELSE /\ run' = [run EXCEPT ![r] = Failed([run[r] EXCEPT !.line_count = @ + 1],
                                               "attribute_error")]
          /\ status_label' = UpdateStatus(status_label, transfer_animation_job, "error",
                                          run[r].transfer_id)
          /\ current_process' = 0
  /\ stalled' = IF /\ run'[r].pc = "read" /\ run'[r].pct = None
                   /\ run'[r].last_progress <= run[r].last_progress
                THEN stalled + 1 ELSE 0
  /\ UNCHANGED <<dedup, parsing, tkvars, ops, tracker, impl, now, child,
                 current_transfer_id, transfer_animation_job, button, cancel,
                 nstarted, ncancels>>

NextForward ==
  \/ \E r \in Runs : nstarted = 0 /\ StartTransfer(r)
  \/ \E r \in Runs : WorkerBegin(r)
  \/ \E r \in Runs : Spawn(r)
  \/ \E r \in Runs : \E line \in FwdLines :
       run[r].line_count < MaxFwdLines /\ ReadLineCounting(r, line)
  \/ \E r \in Runs : \E code \in {0, 1} : ChildExit(r, code)
  \/ \E r \in Runs : Finish(r)
  \/ \E r \in Runs : WorkerEnd(r)
  \/ \E r \in Runs : now < MaxFwdTime /\ run[r].pc = "read" /\ Tick

SpecForward == Init /\ [][NextForward]_vars

(* ------------------- TransferManager (managers/) ---------------------- *)
\* The stack TransferManager -> DeviceManager -> core ADBManager.  Of the
\* methods the class body defines twice the later definition is the one the
\* class has: start_transfer of transfer_manager.py:70-104, cancel_transfer
\* of 189-208 and _transfer_thread of 244-302.
InitManager ==
  /\ impl = "manager"
  /\ now = 0
  /\ current_process = 0
  /\ child = [r \in Runs |-> NoChild]
  /\ run = [r \in Runs |-> NoRun]
  /\ current_transfer_id = 0
  /\ transfer_animation_job = FALSE
  /\ status_label = [msg |-> "ready", by |-> 0, stale |-> FALSE]
  /\ button = "transfer"
  /\ cancel = NoCancel
  /\ nstarted = 0
  /\ ncancels = 0
  /\ NoLibrary

\* TransferManager.start_transfer, transfer_manager.py:83-104: the generation
\* is minted, the controls are disabled and the thread is started with
\* args=(direction, source_path, dest_path, transfer_id, is_file,
\* completion_callback); it returns True.
TM_start_transfer(r, direction, is_file, completion_callback) ==
  /\ r = nstarted + 1
  /\ nstarted' = r
  /\ current_transfer_id' = current_transfer_id + 1
  /\ run' = [run EXCEPT ![r] = [NoRun EXCEPT !.pc = "start",
                                            !.transfer_id = current_transfer_id + 1,
                                            !.args = <<direction, is_file,
                                                       completion_callback>>]]
  /\ button' = "disabled"
  /\ UNCHANGED <<libvars, impl, now, current_process, child, status_label,
                 transfer_animation_job, cancel, ncancels>>

\* The thread calls self._transfer_thread(*args): the method bound to the
\* class, transfer_manager.py:244-245, takes ThreadParams arguments and is
\* handed ThreadArgsPassed, so the call raises TypeError before the body
\* (its try/except/finally, 255-302) is entered and the thread is over.
\* With matching numbers the body would start at its generation check.
TM_transfer_thread(r) ==
  /\ run[r].pc = "start"
  /\ run' = [run EXCEPT
               ![r].pc = IF ThreadArgsPassed # ThreadParams THEN "dead"
                         ELSE IF current_transfer_id # run[r].transfer_id THEN "done"
                         ELSE "spawn",
               ![r].ending = IF ThreadArgsPassed # ThreadParams THEN "type_error"
                             ELSE IF current_transfer_id # run[r].transfer_id THEN "stale"
                             ELSE "none"]
  /\ UNCHANGED <<libvars, impl, now, current_process, child, current_transfer_id,
                 transfer_animation_job, status_label, button, cancel, nstarted, ncancels>>

\* TransferManager.cancel_transfer, transfer_manager.py:189-208, over
\* DeviceManager.cancel_transfer (device_manager.py:140-146) and
\* ADBManager.cancel_transfer (core/adb_manager.py:592-610) with no process
\* held: False, generation + 1, animation stopped, "Transfer cancellation
\* failed."
TM_cancel_transfer ==
  /\ current_process = 0
  /\ ncancels' = ncancels + 1
  /\ current_transfer_id' = current_transfer_id + 1
  /\ transfer_animation_job' = FALSE
  /\ status_label' = [msg |-> "cancellation_failed", by |-> 0, stale |-> FALSE]
  /\ UNCHANGED <<libvars, impl, now, current_process, child, run, button, cancel, nstarted>>

NextManager ==
  \/ \E r \in Runs : \E direction \in {"pull", "push"} :
       \E is_file \in BOOLEAN : \E completion_callback \in BOOLEAN :
         nstarted < MaxRuns /\ TM_start_transfer(r, direction, is_file, completion_callback)
  \/ \E r \in Runs : TM_transfer_thread(r)
  \/ (ncancels < MaxCancels /\ TM_cancel_transfer)

SpecManager == InitManager /\ [][NextManager]_vars

\* The callers and their generation counter: both stacks, transfers that
\* run to the exit of the child, cancels at any point.
InitGen == Init \/ InitManager

NextGen ==
  \/ \E r \in Runs : impl # "manager" /\ nstarted < MaxGenRuns /\ StartTransfer(r)
  \/ \E r \in Runs : impl # "manager" /\ WorkerBegin(r)
  \/ \E r \in Runs : Spawn(r)
  \/ \E r \in Runs : \E code \in {0, 1} : ChildExit(r, code)
  \/ \E r \in Runs : ChildKilled(r)
  \/ \E r \in Runs : Finish(r)
  \/ \E r \in Runs : WorkerEnd(r)
  \/ (impl # "manager" /\ ncancels < MaxCancels /\ CancelBegin)
  \/ CancelPoll
  \/ \E os_error \in BOOLEAN : CancelTerminate(os_error)
  \/ CancelWait
  \/ CancelClear
  \/ CancelReturn
  \/ \E r \in Runs : \E direction \in {"pull", "push"} :
       \E is_file \in BOOLEAN : \E completion_callback \in BOOLEAN :
         impl = "manager" /\ nstarted < MaxGenRuns
           /\ TM_start_transfer(r, direction, is_file, completion_callback)
  \/ \E r \in Runs : impl = "manager" /\ TM_transfer_thread(r)
  \/ (impl = "manager" /\ ncancels < MaxCancels /\ TM_cancel_transfer)

SpecGen == InitGen /\ [][NextGen]_vars

(* ------------------------- FileDeduplicator --------------------------- *)
\* utils/file_deduplication.py.  A call is modelled with the file systems it
\* reads: what hashing a path gives on the local side and on the device.
Paths == {"a.txt", "b.txt"}
Digests == {"h1", "h2"}
NoDigest == "None"
RaisedDigest == "raise"

\* A local path is a file with a content digest, is not a file ("missing":
\* os.path.isfile is False), or cannot be read ("unreadable": open or read
\* raises).
LocalKinds == Digests \cup {"missing", "unreadable"}

\* What the device's sha256sum prints first for a path: the digest in lower
\* case, the digest h1 in upper case ("H1"), nothing usable ("missing": a
\* non-zero return code or empty output) or the runner raises ("unreadable").
RemoteKinds == Digests \cup {"H1", "missing", "unreadable"}

PathLists == UNION {[1..n -> Paths] : n \in 0..MaxFiles}

\* str.lower() on the digests of the model.
Lower(hash_value) == IF hash_value = "H1" THEN "h1" ELSE hash_value

\* compute_local_file_hash without its try/except: the exception leaves the
\* function.
ComputeLocalHashUncaught(file_path, local_files) ==
  CASE local_files[file_path] = "missing" -> NoDigest
    [] local_files[file_path] = "unreadable" -> RaisedDigest
    [] OTHER -> local_files[file_path]

\* compute_local_file_hash, file_deduplication.py:35-57: None when the path
\* is not a file, None when anything raises, the hex digest otherwise.
compute_local_file_hash(file_path, local_files) ==
  CASE local_files[file_path] = "missing" -> NoDigest
    [] local_files[file_path] = "unreadable" -> NoDigest
    [] OTHER -> local_files[file_path]

\* compute_remote_file_hash returning the first token as printed.
ComputeRemoteHashVerbatim(remote_path, adb_command_runner, remote_files) ==
  IF ~adb_command_runner THEN NoDigest
  ELSE CASE remote_files[remote_path] = "missing" -> NoDigest
         [] remote_files[remote_path] = "unreadable" -> NoDigest
         [] OTHER -> remote_files[remote_path]

\* compute_remote_file_hash, file_deduplication.py:59-100: None without a
\* runner, None on a failed command or an exception, else the first token of
\* the output in lower case.
compute_remote_file_hash(remote_path, adb_command_runner, remote_files) ==
  IF ~adb_command_runner THEN NoDigest
  ELSE CASE remote_files[remote_path] = "missing" -> NoDigest
         [] remote_files[remote_path] = "unreadable" -> NoDigest
         [] OTHER -> Lower(remote_files[remote_path])

\* build_local_file_hash_map, file_deduplication.py:124-150: the paths whose
\* hash is truthy, with their hash; an exception of the hashing would leave
\* the loop.
build_local_file_hash_map(file_paths, local_files) ==
  LET hashed == {file_paths[i] : i \in DOMAIN file_paths}
  IN [raised |-> \E p \in hashed :
                   compute_local_file_hash(p, local_files) = RaisedDigest,
      hash_map |-> [p \in {q \in hashed :
                             compute_local_file_hash(q, local_files) # NoDigest}
                     |-> compute_local_file_hash(p, local_files)]]

\* build_remote_file_hash_map, file_deduplication.py:152-184: empty without a
\* runner, else as the local one.
build_remote_file_hash_map(file_paths, adb_command_runner, remote_files) ==
  LET hashed == IF adb_command_runner
                THEN {file_paths[i] : i \in DOMAIN file_paths} ELSE {}
  IN [raised |-> FALSE,
      hash_map |-> [p \in {q \in hashed :
                             compute_remote_file_hash(q, adb_command_runner,
                                                      remote_files) # NoDigest}
                     |-> compute_remote_file_hash(p, adb_command_runner,
                                                  remote_files)]]

\* The loop of file_deduplication.py:221-226 from index i on: a source file
\* goes to duplicate_files when its hash is in the map, truthy and among the
\* target hash values, and to files_to_transfer otherwise.
RECURSIVE PartitionFrom(_, _, _, _, _)
PartitionFrom(source_files, i, source_hashes, target_hash_values, lists) ==
  IF i > Len(source_files) THEN lists
  ELSE LET source_file == source_files[i]
           source_hash == IF source_file \in DOMAIN source_hashes
                          THEN source_hashes[source_file] ELSE NoDigest
       IN IF source_hash # NoDigest /\ source_hash \in target_hash_values
          THEN PartitionFrom(source_files, i + 1, source_hashes,
                 target_hash_values,
                 [lists EXCEPT !.duplicate_files = Append(@, source_file)])
          ELSE PartitionFrom(source_files, i + 1, source_hashes,
                 target_hash_values,
                 [lists EXCEPT !.files_to_transfer = Append(@, source_file)])

\* The arguments of a find_duplicate_files call and the two file systems.
InitDedup ==
  /\ impl = "library"
  /\ now = 0
  /\ current_process = 0
  /\ child = [r \in Runs |-> NoChild]
  /\ run = [r \in Runs |-> NoRun]
  /\ current_transfer_id = 0
  /\ transfer_animation_job = FALSE
  /\ status_label = [msg |-> "ready", by |-> 0, stale |-> FALSE]
  /\ button = "transfer"
  /\ cancel = NoCancel
  /\ nstarted = 0
  /\ ncancels = 0
  /\ parsing = NoParsing
  /\ after_queue = <<>> /\ delivered = <<>>
  /\ ops = NoOps /\ tracker = NoTracker /\ stalled = 0
  /\ \E source_files \in PathLists, target_files \in PathLists,
        is_remote_source \in BOOLEAN, is_remote_target \in BOOLEAN,
        adb_command_runner \in BOOLEAN,
        local_files \in [Paths -> LocalKinds],
        remote_files \in [Paths -> RemoteKinds] :
       dedup = [NoDedup EXCEPT !.pc = "args",
                  !.source_files = source_files,
                  !.target_files = target_files,
                  !.is_remote_source = is_remote_source,
                  !.is_remote_target = is_remote_target,
                  !.adb_command_runner = adb_command_runner,
                  !.local_files = local_files,
                  !.remote_files = remote_files]

\* find_duplicate_files, file_deduplication.py:186-230.
find_duplicate_files ==
  /\ dedup.pc = "args"
  /\ LET source == IF dedup.is_remote_source
                   THEN build_remote_file_hash_map(dedup.source_files,
                          dedup.adb_command_runner, dedup.remote_files)
                   ELSE build_local_file_hash_map(dedup.source_files,
                          dedup.local_files)
         target == IF dedup.is_remote_target
                   THEN build_remote_file_hash_map(dedup.target_files,
                          dedup.adb_command_runner, dedup.remote_files)
                   ELSE build_local_file_hash_map(dedup.target_files,
                          dedup.local_files)
         target_hash_values ==
           {target.hash_map[p] : p \in DOMAIN target.hash_map}
         lists == PartitionFrom(dedup.source_files, 1, source.hash_map,
                    target_hash_values,
                    [files_to_transfer |-> <<>>, duplicate_files |-> <<>>])
     IN IF source.raised \/ target.raised
        THEN dedup' = [dedup EXCEPT !.pc = "raised"]
        ELSE dedup' = [dedup EXCEPT !.pc = "planned",
                         !.target_hash_values = target_hash_values,
                         !.files_to_transfer = lists.files_to_transfer,
                         !.duplicate_files = lists.duplicate_files]
  /\ UNCHANGED <<appvars, parsing, tkvars, ops, tracker, stalled>>

NextDedup == find_duplicate_files

SpecDedup == InitDedup /\ [][NextDedup]_vars

\* What stat gives for a path on one side: its size in bytes, or None when
\* the path is not a file, the command fails or prints no number, or
\* anything raises.
StatAnswers == (0..MaxSize) \cup {None}

\* get_file_size, file_deduplication.py:232-259: the device is asked only
\* when is_remote and a runner is given; in every other case the path is
\* looked up on the local file system.
get_file_size(file_path, is_remote, adb_command_runner, local_stat, remote_stat) ==
  IF is_remote /\ adb_command_runner
  THEN remote_stat[file_path]
  ELSE local_stat[file_path]

\* The loop of calculate_transfer_savings, file_deduplication.py:276-280,
\* from index i on.
RECURSIVE SavingsFrom(_, _, _, _, _, _, _)
SavingsFrom(duplicate_files, i, is_remote, adb_command_runner, local_stat, remote_stat, saved) ==
  IF i > Len(duplicate_files) THEN saved
  ELSE LET file_size == get_file_size(duplicate_files[i], is_remote,
                          adb_command_runner, local_stat, remote_stat)
       IN SavingsFrom(duplicate_files, i + 1, is_remote, adb_command_runner,
            local_stat, remote_stat,
            IF file_size # None
            THEN [bytes_saved |-> saved.bytes_saved + file_size,
                  files_saved |-> saved.files_saved + 1]
            ELSE saved)

\* A plan, the arguments of a calculate_transfer_savings call on its
\* duplicates and the sizes of the files on the two sides.
InitSavings ==
  /\ impl = "library"
  /\ now = 0
  /\ current_process = 0
  /\ child = [r \in Runs |-> NoChild]
  /\ run = [r \in Runs |-> NoRun]
  /\ current_transfer_id = 0
  /\ transfer_animation_job = FALSE
  /\ status_label = [msg |-> "ready", by |-> 0, stale |-> FALSE]
  /\ button = "transfer"
  /\ cancel = NoCancel
  /\ nstarted = 0
  /\ ncancels = 0
  /\ parsing = NoParsing
  /\ after_queue = <<>> /\ delivered = <<>>
  /\ ops = NoOps /\ tracker = NoTracker /\ stalled = 0
  /\ \E files_to_transfer \in PathLists, duplicate_files \in PathLists,
        is_remote \in BOOLEAN, adb_command_runner \in BOOLEAN,
        local_stat \in [Paths -> StatAnswers],
        remote_stat \in [Paths -> StatAnswers] :
       dedup = [NoDedup EXCEPT !.pc = "planned",
                  !.files_to_transfer = files_to_transfer,
                  !.duplicate_files = duplicate_files,
                  !.is_remote = is_remote,
                  !.adb_command_runner = adb_command_runner,
                  !.local_stat = local_stat,
                  !.remote_stat = remote_stat]

\* calculate_transfer_savings, file_deduplication.py:261-282.
calculate_transfer_savings ==
  /\ dedup.pc = "planned"
  /\ LET saved == SavingsFrom(dedup.duplicate_files, 1, dedup.is_remote,
                    dedup.adb_command_runner, dedup.local_stat,
                    dedup.remote_stat,
                    [bytes_saved |-> 0, files_saved |-> 0])
     IN dedup' = [dedup EXCEPT !.pc = "saved",
                    !.bytes_saved = saved.bytes_saved,
                    !.files_saved = saved.files_saved]
  /\ UNCHANGED <<appvars, parsing, tkvars, ops, tracker, stalled>>

NextSavings == calculate_transfer_savings

SpecSavings == InitSavings /\ [][NextSavings]_vars

(* ------------------- ADBCommandRunner.parse_progress ------------------ *)
\* core/adb_command.py:55-128.  A line is a sequence of space-separated
\* pieces of text, each written here with the numbers it carries:
\*   paren        "(a%)"               complete     "a% complete"
\*   transferred  "transferred a%"     files        "3 files pulled"
\*   fraction     "a/b"                transferring "Transferring:"
\*   percent      "a%"                 bytes        "(1048576 bytes in 2.5s)"
\*   word         any other text, e.g. "done"
Piece(kind, a, b) == [kind |-> kind, a |-> a, b |-> b]

\* The percentages a piece may carry: in range, at both ends, and above.
Percentages == {0, 45, 100, 150}

\* The fractions a line may carry: 0/0, 1/0, 1/2 and 3/2.
Fractions == {<<0, 0>>, <<1, 0>>, <<1, 2>>, <<3, 2>>}

Pieces ==
  {Piece(k, a, 0) : k \in {"paren", "complete", "transferred", "percent"},
                    a \in Percentages}
    \cup {Piece("fraction", f[1], f[2]) : f \in Fractions}
    \cup {Piece(k, 0, 0) : k \in {"files", "transferring", "bytes", "word"}}

TextLines == UNION {[1..n -> Pieces] : n \in 0..MaxPieces}

\* The index of the first piece of the line, from index from on, whose kind
\* is one of kinds; 0 when there is none (re.search finds the leftmost
\* match).
FirstPiece(text_line, kinds, from) ==
  LET found == {i \in DOMAIN text_line :
                  i >= from /\ text_line[i].kind \in kinds}
  IN IF found = {} THEN 0
     ELSE CHOOSE i \in found : \A j \in found : i <= j

\* The seven searches of parse_progress: what each captures, None when it
\* does not match.
\* r"\((\d{1,3})%\)", adb_command.py:67.
SearchParen(text_line) ==
  LET i == FirstPiece(text_line, {"paren"}, 1)
  IN IF i = 0 THEN None ELSE text_line[i].a

\* r"(\d{1,3})%\s+complete", adb_command.py:75.
SearchComplete(text_line) ==
  LET i == FirstPiece(text_line, {"complete"}, 1)
  IN IF i = 0 THEN None ELSE text_line[i].a

\* r"transferred\s+(\d{1,3})%", adb_command.py:82.
SearchTransferred(text_line) ==
  LET i == FirstPiece(text_line, {"transferred"}, 1)
  IN IF i = 0 THEN None ELSE text_line[i].a

\* r"\d+\s+files?\s+(?:pulled|pushed).*?\((\d{1,3})%\)", adb_command.py:89-93:
\* the first "(a%)" after the first "N files pulled".
SearchFiles(text_line) ==
  LET i == FirstPiece(text_line, {"files"}, 1)
      j == IF i = 0 THEN 0 ELSE FirstPiece(text_line, {"paren"}, i + 1)
  IN IF j = 0 THEN None ELSE text_line[j].a

\* r"(\d+)\s*/\s*(\d+)", adb_command.py:100: the index of the fraction.
SearchFraction(text_line) == FirstPiece(text_line, {"fraction"}, 1)

\* r"transferr?ing", adb_command.py:117.
SearchTransferring(text_line) ==
  FirstPiece(text_line, {"transferring"}, 1) # 0

\* r"(\d{1,3})%", adb_command.py:118: the first percentage of the line,
\* whatever surrounds it.
SearchPercent(text_line) ==
  LET i == FirstPiece(text_line,
             {"paren", "complete", "transferred", "percent"}, 1)
  IN IF i = 0 THEN None ELSE text_line[i].a

\* r"\(\s*\d+\s+bytes\b", adb_command.py:125.
SearchBytes(text_line) == FirstPiece(text_line, {"bytes"}, 1) # 0

\* The test of a captured percentage without its range check.
PercentAccepted(pct) == pct # None

\* "if m: pct = int(m.group(1)); if 0 <= pct <= 100: return pct",
\* adb_command.py:68-71 and the same at 76-79, 83-86, 94-97, 119-122.
PercentReturned(pct) == pct # None /\ 0 <= pct /\ pct <= 100

\* adb_command.py:102-112: None when b is not positive, else
\* int((a / b) * 100) clamped to 0..100.
FractionValue(a, b) ==
  IF b > 0 THEN Min(100, Max(0, (a * 100) \div b)) ELSE None

\* parse_progress, adb_command.py:55-128.
parse_progress(text_line) ==
  LET f == SearchFraction(text_line)
  IN CASE PercentReturned(SearchParen(text_line)) -> SearchParen(text_line)
       [] PercentReturned(SearchComplete(text_line)) ->
            SearchComplete(text_line)
       [] PercentReturned(SearchTransferred(text_line)) ->
            SearchTransferred(text_line)
       [] PercentReturned(SearchFiles(text_line)) -> SearchFiles(text_line)
       [] f # 0 /\ FractionValue(text_line[f].a, text_line[f].b) # None ->
            FractionValue(text_line[f].a, text_line[f].b)
       [] SearchTransferring(text_line)
            /\ PercentReturned(SearchPercent(text_line)) ->
            SearchPercent(text_line)
       [] SearchBytes(text_line) -> 100
       [] OTHER -> None

\* A line about to be parsed.
InitParse ==
  /\ impl = "library"
  /\ now = 0
  /\ current_process = 0
  /\ child = [r \in Runs |-> NoChild]
  /\ run = [r \in Runs |-> NoRun]
  /\ current_transfer_id = 0
  /\ transfer_animation_job = FALSE
  /\ status_label = [msg |-> "ready", by |-> 0, stale |-> FALSE]
  /\ button = "transfer"
  /\ cancel = NoCancel
  /\ nstarted = 0
  /\ ncancels = 0
  /\ dedup = NoDedup
  /\ after_queue = <<>> /\ delivered = <<>>
  /\ ops = NoOps /\ tracker = NoTracker /\ stalled = 0
  /\ \E text_line \in TextLines :
       parsing = [pc |-> "args", text_line |-> text_line, result |-> None]

\* The call parse_progress(text_line).
ParseLine ==
  /\ parsing.pc = "args"
  /\ parsing' = [parsing EXCEPT !.pc = "done",
                   !.result = parse_progress(parsing.text_line)]
  /\ UNCHANGED <<appvars, dedup, tkvars, ops, tracker, stalled>>

NextParse == ParseLine

SpecParse == InitParse /\ [][NextParse]_vars

(* ------------- ADBFileTransfer.pull_folder and its siblings ----------- *)
\* core/file_transfer.py:59-114.  pull_file, push_file, pull_folder and
\* push_folder check their paths and hand the transfer to
\* runner.run_adb_command(['pull' | 'push', ...]) with capture_output left
\* at True, i.e. to subprocess.run(cmd, capture_output=True, text=True,
\* timeout=15) of core/adb_command.py:30.  The child is not stored in
\* current_process, so cancel_transfer (file_transfer.py:294-315) finds no
\* handle for it.
InitRunner ==
  /\ impl = "runner"
  /\ now = 0
  /\ current_process = 0
  /\ child = [r \in Runs |-> NoChild]
  /\ run = [r \in Runs |-> NoRun]
  /\ current_transfer_id = 0
  /\ transfer_animation_job = FALSE
  /\ status_label = [msg |-> "ready", by |-> 0, stale |-> FALSE]
  /\ button = "transfer"
  /\ cancel = NoCancel
  /\ nstarted = 0
  /\ ncancels = 0
  /\ NoLibrary

\* The call of pull_folder (file_transfer.py:91-104): False at once when the
\* path check fails (97-98; 85-86 and 111-112 for the pushes), else
\* subprocess.run starts the child and waits for it, or fails to start it
\* (adb_command.py:37-39).
FT_pull_folder(r, path_ok, spawned) ==
  /\ r = nstarted + 1
  /\ \A q \in Runs : run[q].pc \in {"idle", "done"}
  /\ nstarted' = r
  /\ IF ~path_ok
     THEN /\ run' = [run EXCEPT ![r] = [NoRun EXCEPT !.pc = "done",
                       !.returned = "false", !.ending = "not_started"]]
          /\ UNCHANGED child
     ELSE IF ~spawned
     THEN /\ run' = [run EXCEPT ![r] = [NoRun EXCEPT !.pc = "done",
                       !.start_time = now,
                       !.returned = "false", !.ending = "spawn_error"]]
          /\ UNCHANGED child
     ELSE /\ run' = [run EXCEPT ![r] = [NoRun EXCEPT !.pc = "communicate",
                       !.start_time = now]]
          /\ child' = [child EXCEPT ![r] = [NoChild EXCEPT !.state = "running"]]
  /\ UNCHANGED <<libvars, impl, now, current_process, current_transfer_id,
                 transfer_animation_job, status_label, button, cancel, ncancels>>

\* The child has exited: run_adb_command returns (stdout, stderr, returncode)
\* (adb_command.py:31) and _is_command_success is returncode == 0
\* (file_transfer.py:35-36).
FT_returned(r) ==
  /\ run[r].pc = "communicate"
  /\ child[r].state = "exited"
  /\ run' = [run EXCEPT ![r].pc = "done", ![r].ending = "exit",
               ![r].returned = IF child[r].returncode = 0 THEN "true" ELSE "false"]
  /\ UNCHANGED <<libvars, impl, now, current_process, child, current_transfer_id,
                 transfer_animation_job, status_label, button, cancel, nstarted, ncancels>>

\* timeout=15 of adb_command.py:30: when the child is still running 15 s
\* after its start, subprocess.run kills it, waits for it and raises
\* TimeoutExpired; run_adb_command catches it and returns (None, str(e), -1)
\* (37-39), which is not a success.
FT_timeout(r) ==
  /\ run[r].pc = "communicate"
  /\ child[r].state = "running"
  /\ now - run[r].start_time >= RunTimeout
  /\ child' = [child EXCEPT ![r].state = "exited", ![r].sigkill = TRUE,
                            ![r].returncode = -9]
  /\ run' = [run EXCEPT ![r].pc = "done", ![r].ending = "timeout",
               ![r].returned = "false"]
  /\ UNCHANGED <<libvars, impl, now, current_process, current_transfer_id,
                 transfer_animation_job, status_label, button, cancel, nstarted, ncancels>>

\* cancel_transfer, file_transfer.py:294-315, while such a transfer runs:
\* current_process is None, it returns False and the child goes on.
FT_cancel_transfer ==
  /\ current_process = 0
  /\ ncancels' = ncancels + 1
  /\ UNCHANGED <<libvars, impl, now, current_process, child, run,
                 current_transfer_id, transfer_animation_job, status_label,
                 button, cancel, nstarted>>

NextRunner ==
  \/ \E r \in Runs, path_ok \in BOOLEAN, spawned \in BOOLEAN :
       FT_pull_folder(r, path_ok, spawned)
  \/ \E r \in Runs, code \in {0, 1} : ChildExit(r, code)
  \/ \E r \in Runs : FT_returned(r)
  \/ \E r \in Runs : FT_timeout(r)
  \/ (ncancels < MaxCancels /\ FT_cancel_transfer)
  \/ (now < MaxRunnerTime /\ Tick)

SpecRunner == InitRunner /\ [][NextRunner]_vars

\* The same transfers started on the core's ADBManager, whose pull_file,
\* pull_folder, push_file and push_folder delegate to the ADBFileTransfer
\* methods (core/adb_manager.py:231, 251, 268, 285). local_ok: the local path
\* is one the ADBFileTransfer method accepts when the manager is called;
\* pull_folder makes the directory itself first (246), so its delegate always
\* finds the path there and returns False.
AM_transfer(r, op, local_ok, spawned) ==
  FT_pull_folder(r, local_ok /\ op # "pull_folder", spawned)

\* ADBManager.cancel_transfer, core/adb_manager.py:592-609, reached from
\* TransferManager.cancel_transfer (transfer_manager.py:189-208) through
\* DeviceManager.cancel_transfer (device_manager.py:140-146). The manager's
\* current_process is assigned by its run_adb_command(capture_output=False)
\* only (573), which no transfer method calls: the slot is None, the test of
\* line 593 fails and the call returns False.
AM_cancel_transfer ==
  /\ current_process = 0
  /\ ncancels' = ncancels + 1
  /\ cancel' = [NoCancel EXCEPT !.pc = "return", !.found = "no_handle",
                                !.cancelled = FALSE, !.handle_after = 0]
  /\ UNCHANGED <<libvars, impl, now, current_process, child, run,
                 current_transfer_id, transfer_animation_job, status_label,
                 button, nstarted>>

NextCoreCancel ==
  \/ \E r \in Runs, op \in {"pull_file", "pull_folder", "push_file", "push_folder"},
        local_ok \in BOOLEAN, spawned \in BOOLEAN :
       AM_transfer(r, op, local_ok, spawned)
  \/ \E r \in Runs, code \in {0, 1} : ChildExit(r, code)
  \/ \E r \in Runs : FT_returned(r)
  \/ \E r \in Runs : FT_timeout(r)
  \/ (ncancels < MaxCancels /\ AM_cancel_transfer)
  \/ (now < MaxRunnerTime /\ Tick)

SpecCoreCancel == InitRunner /\ [][NextCoreCancel]_vars

(* ---------------- the executors with a ProgressHandler ---------------- *)
\* One run of an executor whose progress and status callbacks are
\* ProgressHandler.update_progress and ProgressHandler.set_status
\* (gui/progress_handler.py:23-54, 104-114): each call posts one update with
\* self.parent.after(0, update_ui), and Tk runs the posted updates.
\* A posted update: the number of the line it was made for (0 before the
\* first line, line_count + 1 after the last), its kind and its content.
Posted(line, kind, percentage, message) ==
  [line |-> line, kind |-> kind, percentage |-> percentage, message |-> message]

\* ProgressHandler.update_progress, progress_handler.py:39-54: the
\* percentage is brought into 0..100 and the update is posted.
PH_update_progress(line, percentage) ==
  Posted(line, "progress", Max(0, Min(100, percentage)), "")

\* ProgressHandler.set_status, progress_handler.py:104-114.
PH_set_status(line, message) == Posted(line, "status", None, message)

\* The updates cbs are posted, in this order.
Post(cbs) ==
  /\ after_queue' = after_queue \o cbs
  /\ UNCHANGED <<dedup, parsing, delivered, ops, tracker, stalled>>

\* The executor from its entry to the stored handle, adb_manager.py:385-400 /
\* file_transfer.py:193-209: progress 0, "Starting ...", Popen.
PH_Spawn(r) ==
  /\ r = 1 /\ nstarted = 0
  /\ nstarted' = r
  /\ child' = [child EXCEPT ![r].state = "running"]
  /\ current_process' = r
  /\ run' = [run EXCEPT ![r].pc = "read", ![r].reported = 0,
                        ![r].start_time = now, ![r].last_update_time = now,
                        ![r].last_status = "starting"]
  /\ Post(<<PH_update_progress(0, 0), PH_set_status(0, "starting")>>)
  /\ UNCHANGED <<impl, now, current_transfer_id, transfer_animation_job,
                 status_label, button, cancel, ncancels>>

\* One line of the child's output, adb_manager.py:403-437: the progress
\* update when the line carries a percentage or the heuristic commits, then
\* the status update with the line.  file_transfer.py:212-231 and 289-292:
\* the AttributeError of self.parse_progress, reported as a status.
PH_ReadLine(r, line) ==
  /\ run[r].pc = "read"
  /\ child[r].state = "running"
  /\ run[r].line_count < MaxPostedLines
  /\ IF impl = "legacy"
     THEN LET after == PullFolderLine(run[r], line, now)
          IN /\ run' = [run EXCEPT ![r] = [after EXCEPT !.last_status = "line"]]
             /\ Post((IF after.pct # None
                         \/ after.last_progress # run[r].last_progress
                      THEN <<PH_update_progress(after.line_count, after.reported)>>
                      ELSE <<>>)
                     \o <<PH_set_status(after.line_count, "line")>>)
             /\ UNCHANGED current_process
     ELSE /\ run' = [run EXCEPT ![r] = Failed([run[r] EXCEPT !.line_count = @ + 1],
                                               "attribute_error")]
          /\ Post(<<PH_set_status(run[r].line_count + 1, "error")>>)
          /\ current_process' = 0
  /\ UNCHANGED <<impl, now, child, current_transfer_id, transfer_animation_job,
                 status_label, button, cancel, nstarted, ncancels>>

\* End of stream and the exit-code branch, adb_manager.py:439-456 /
\* file_transfer.py:271-288.
PH_Finish(r) ==
  /\ run[r].pc = "read"
  /\ child[r].state = "exited"
  /\ LET ok == child[r].returncode = 0
         last == run[r].line_count + 1
     IN /\ run' = [run EXCEPT ![r].pc = "post",
                              ![r].reported = IF ok THEN 100 ELSE @,
                              ![r].returned = IF ok THEN "true" ELSE "false",
                              ![r].ending = IF ok THEN "exit0" ELSE "exitN",
                              ![r].last_status = IF ok THEN "completed" ELSE "failed",
                              ![r].handle_after = 0]
        /\ Post(IF ok
                THEN <<PH_update_progress(last, 100), PH_set_status(last, "completed")>>
                ELSE <<PH_set_status(last, "failed")>>)
  /\ current_process' = 0
  /\ UNCHANGED <<impl, now, child, current_transfer_id, transfer_animation_job,
                 status_label, button, cancel, nstarted, ncancels>>

\* Tk running the update posted last.
TkDispatchNewestFirst ==
  /\ after_queue # <<>>
  /\ delivered' = Append(delivered, after_queue[Len(after_queue)])
  /\ after_queue' = SubSeq(after_queue, 1, Len(after_queue) - 1)
  /\ UNCHANGED <<appvars, dedup, parsing, ops, tracker, stalled>>

\* Tk runs the update that was posted first: the handlers of after(0, ...)
\* are due in the order they were created.
TkDispatch ==
  /\ after_queue # <<>>
  /\ delivered' = Append(delivered, Head(after_queue))
  /\ after_queue' = Tail(after_queue)
  /\ UNCHANGED <<appvars, dedup, parsing, ops, tracker, stalled>>

NextPosted ==
  \/ \E r \in Runs : PH_Spawn(r)
  \/ \E r \in Runs, line \in SampleLines : PH_ReadLine(r, line)
  \/ \E r \in Runs, code \in {0, 1} : ChildExit(r, code)
  \/ \E r \in Runs : PH_Finish(r)
  \/ TkDispatch
  \/ (now < MaxTime /\ Tick)

SpecPosted == Init /\ [][NextPosted]_vars

(* --------------- the transfer methods of the core, by call ------------- *)
\* ADBManager.pull_file / pull_folder / push_file / push_folder
\* (core/adb_manager.py:216-291) and the ADBFileTransfer methods of the same
\* names they delegate to (core/file_transfer.py:59-114), with the local path
\* of the call: "absent", a "file" or a "dir".
TransferOps == {"pull_file", "pull_folder", "push_file", "push_folder"}
LocalKinds3 == {"absent", "file", "dir"}

\* os.makedirs(path, exist_ok=True) on a path of kind local: it raises on a
\* file and when the directory cannot be made, else the path is a directory.
Makedirs(local, makedirs_ok) ==
  IF local = "dir" THEN [raised |-> FALSE, local |-> "dir"]
  ELSE IF local = "file" \/ ~makedirs_ok THEN [raised |-> TRUE, local |-> local]
  ELSE [raised |-> FALSE, local |-> "dir"]

\* _is_command_success taking any non-empty result for a success.
IsCommandSuccessTruthy(returncode) == TRUE

\* _is_command_success, file_transfer.py:28-40, on the tuple
\* (stdout, stderr, returncode) run_adb_command returns: returncode == 0.
is_command_success(returncode) == returncode = 0

\* A call about to be made: the method, the layer it is called on, the local
\* path and whether the OS lets directories be made.
InitOps ==
  /\ impl = "library"
  /\ now = 0
  /\ current_process = 0
  /\ child = [r \in Runs |-> NoChild]
  /\ run = [r \in Runs |-> NoRun]
  /\ current_transfer_id = 0
  /\ transfer_animation_job = FALSE
  /\ status_label = [msg |-> "ready", by |-> 0, stale |-> FALSE]
  /\ button = "transfer"
  /\ cancel = NoCancel
  /\ nstarted = 0
  /\ ncancels = 0
  /\ dedup = NoDedup /\ parsing = NoParsing
  /\ after_queue = <<>> /\ delivered = <<>>
  /\ tracker = NoTracker
  /\ stalled = 0
  /\ \E layer \in {"manager", "transfer"}, op \in TransferOps,
        local \in LocalKinds3, makedirs_ok \in BOOLEAN :
       ops = [NoOps EXCEPT !.pc = IF layer = "manager" THEN "call" ELSE "transfer",
                !.layer = layer, !.op = op, !.local0 = local, !.local = local,
                !.makedirs_ok = makedirs_ok]

\* The ADBManager method up to its delegation, adb_manager.py:220-231,
\* 243-251, 263-268, 280-285: the pulls make the directory first (of the
\* file: its parent; of the folder: local_path itself) and fail when that
\* raises, the pushes fail when the local path does not exist.
AM_call ==
  /\ ops.pc = "call"
  /\ LET made == Makedirs(ops.local, ops.makedirs_ok)
         refused ==
           CASE ops.op = "pull_file" -> ~ops.makedirs_ok
             [] ops.op = "pull_folder" -> made.raised
             [] OTHER -> ops.local = "absent"
     IN ops' = [ops EXCEPT
                  !.pc = IF refused THEN "done" ELSE "transfer",
                  !.local = IF ops.op = "pull_folder" THEN made.local ELSE @]
  /\ UNCHANGED <<appvars, dedup, parsing, tkvars, tracker, stalled>>

\* The ADBFileTransfer method up to run_adb_command, file_transfer.py:62-76,
\* 83-86, 94-103, 109-112: False when the local target of a pull exists or
\* the local source of a push is not a file / not a directory; pull_folder
\* makes local_path and ignores a failure of that.
FT_call ==
  /\ ops.pc = "transfer"
  /\ LET refused ==
           CASE ops.op \in {"pull_file", "pull_folder"} -> ops.local # "absent"
             [] ops.op = "push_file" -> ops.local # "file"
             [] OTHER -> ops.local # "dir"
     IN ops' = [ops EXCEPT
                  !.pc = IF refused THEN "done" ELSE "adb",
                  !.seen = ops.local,
                  !.local = IF ~refused /\ ops.op = "pull_folder"
                            THEN Makedirs(ops.local, ops.makedirs_ok).local
                            ELSE @]
  /\ UNCHANGED <<appvars, dedup, parsing, tkvars, tracker, stalled>>

\* runner.run_adb_command([...]) and _is_command_success on its result,
\* file_transfer.py:77-78, 88-89, 104-105, 113-114: adb exits with
\* returncode, or subprocess.run raises and the result is (None, str(e), -1).
FT_run_adb(returncode) ==
  /\ ops.pc = "adb"
  /\ ops' = [ops EXCEPT !.pc = "done", !.invoked = @ + 1,
               !.returncode = returncode,
               !.result = is_command_success(returncode)]
  /\ UNCHANGED <<appvars, dedup, parsing, tkvars, tracker, stalled>>

NextOps ==
  \/ AM_call
  \/ FT_call
  \/ \E returncode \in {0, 1, -1} : FT_run_adb(returncode)

SpecOps == InitOps /\ [][NextOps]_vars

(* --------------- the device operations that take a path ---------------- *)
\* list_files, get_file_info, delete_file, delete_folder, create_folder and
\* move_item (core/adb_manager.py:146-214, 293-465). A path or a device id
\* is a sequence of characters of a small alphabet; NoText is Python's None.
MaxPathLen == 2
NoText == <<"None">>
PathChars == {"/", "./", "a", ";", "*", " ", "NUL"}
DeviceChars == {"a", ";"}
GuardedOps == {"list_files", "get_file_info", "delete_file", "delete_folder", "create_folder", "move_item"}
AndroidPaths == UNION {[1..n -> PathChars] : n \in 0..MaxPathLen}
DeviceIds == {NoText, <<>>} \cup {<<c>> : c \in DeviceChars}

\* str.strip(): the text without its leading and trailing blanks.
Strip(text) ==
  LET solid == {i \in 1..Len(text) : text[i] # " "}
  IN IF solid = {} THEN <<>>
     ELSE SubSeq(text, CHOOSE i \in solid : \A j \in solid : i <= j,
                       CHOOSE i \in solid : \A j \in solid : j <= i)

\* sanitize_android_path raises ValueError, security_utils.py:50-77: on an
\* empty path, and on the stripped path when it holds a null byte or a
\* dangerous pattern, or is not absolute, not "./..." and has a character
\* outside [a-zA-Z0-9_\-./] (or none at all).
sanitize_android_path_raises(path) ==
  \/ path = NoText
  \/ path = <<>>
  \/ LET stripped == Strip(path)
     IN \/ \E i \in 1..Len(stripped) : stripped[i] \in {"NUL", ";"}
        \/ /\ ~(stripped # <<>> /\ stripped[1] \in {"/", "./"})
           /\ \/ stripped = <<>>
              \/ \E i \in 1..Len(stripped) : stripped[i] \notin {"a", "/", "./"}

\* validate_device_id raises ValueError, security_utils.py:145-158.
validate_device_id_raises(device_id) ==
  \/ device_id = NoText
  \/ device_id = <<>>
  \/ \E i \in 1..Len(device_id) : device_id[i] \notin {"a"}

\* "device_id or self.selected_device", adb_manager.py:157: None and the
\* empty string are both false.
Truthy(text) == text # NoText /\ text # <<>>
TargetDevice(device_id, selected_device) == IF Truthy(device_id) THEN device_id ELSE selected_device

\* move_item sanitising old_path only.
OldPathRejected(paths) == sanitize_android_path_raises(paths[1])

\* The try block that sanitises the path arguments in their order,
\* adb_manager.py:149-154, 296-299, 380-384: one raise rejects the call.
PathsRejected(paths) == \E i \in 1..Len(paths) : sanitize_android_path_raises(paths[i])

\* The failure value of an operation for a rejected path / device id.
FailureValue(op, what) ==
  CASE op = "list_files" -> "[]"
    [] op = "get_file_info" -> "None"
    [] OTHER -> IF what = "path" THEN "False, Invalid path" ELSE "False, Invalid device ID"

\* What the operation returns once the runner has returned.
ReturnValue(op, returncode) ==
  CASE op = "list_files" -> IF returncode = 0 THEN "files" ELSE "[]"
    [] op = "get_file_info" -> IF returncode = 0 THEN "info" ELSE "None"
    [] OTHER -> IF returncode = 0 THEN "True" ELSE "False, Failed"

NoGuarded ==
  [pc |-> "call", op |-> "none", paths |-> <<>>, device_id |-> NoText,
   selected_device |-> NoText, invoked |-> 0, args |-> <<>>, result |-> "none"]

\* A call about to be made: the operation, its path arguments, the device id
\* argument and the manager's selected device.
InitGuarded ==
  /\ impl = "library"
  /\ now = 0
  /\ current_process = 0
  /\ child = [r \in Runs |-> NoChild]
  /\ run = [r \in Runs |-> NoRun]
  /\ current_transfer_id = 0
  /\ transfer_animation_job = FALSE
  /\ status_label = [msg |-> "ready", by |-> 0, stale |-> FALSE]
  /\ button = "transfer"
  /\ cancel = NoCancel
  /\ nstarted = 0
  /\ ncancels = 0
  /\ dedup = NoDedup /\ parsing = NoParsing
  /\ after_queue = <<>> /\ delivered = <<>>
  /\ tracker = NoTracker
  /\ stalled = 0
  /\ \E op \in GuardedOps, path \in AndroidPaths, new_path \in AndroidPaths,
        device_id \in DeviceIds, selected_device \in {NoText, <<";">>} :
       /\ op # "move_item" => new_path = <<>>
       /\ ops = [NoGuarded EXCEPT !.op = op,
                   !.paths = IF op = "move_item" THEN <<path, new_path>> ELSE <<path>>,
                   !.device_id = device_id, !.selected_device = selected_device]

\* The operation up to the runner: sanitise the paths, validate the target
\* device if there is one, build args.
GuardedCall ==
  /\ ops.pc = "call"
  /\ LET target_device == TargetDevice(ops.device_id, ops.selected_device)
     IN IF PathsRejected(ops.paths)
        THEN ops' = [ops EXCEPT !.pc = "done", !.result = FailureValue(ops.op, "path")]
        ELSE IF Truthy(target_device) /\ validate_device_id_raises(target_device)
        THEN ops' = [ops EXCEPT !.pc = "done", !.result = FailureValue(ops.op, "device")]
        ELSE ops' = [ops EXCEPT !.pc = "adb",
                       !.args = [i \in 1..Len(ops.paths) |-> Strip(ops.paths[i])]]
  /\ UNCHANGED <<appvars, dedup, parsing, tkvars, tracker, stalled>>

\* self.command_runner.run_adb_command(args) and the return of the
\* operation, e.g. adb_manager.py:169-171, 312-319.
GuardedRun(returncode) ==
  /\ ops.pc = "adb"
  /\ ops' = [ops EXCEPT !.pc = "done", !.invoked = @ + 1,
               !.result = ReturnValue(ops.op, returncode)]
  /\ UNCHANGED <<appvars, dedup, parsing, tkvars, tracker, stalled>>

NextGuarded ==
  \/ GuardedCall
  \/ \E returncode \in {0, 1} : GuardedRun(returncode)

SpecGuarded == InitGuarded /\ [][NextGuarded]_vars

(* ----------------------- the ProgressTracker --------------------------- *)
\* core/progress_tracker.py:10-131, the base class of ADBFileTransfer, with a
\* progress callback set. tracker.reported is the last value given to
\* update_progress, tracker.callback the last value the callback received.
MaxTotal == 2
MaxUpdates == 2
Totals == (-1..MaxTotal) \cup {1000}
Values == (-1..(MaxTotal + 1)) \cup {45, 100}

\* get_progress_percentage, progress_tracker.py:107-115, truncated as
\* int(...) truncates it at line 75.
get_progress_percentage(total_bytes, transferred_bytes) ==
  IF total_bytes <= 0 THEN 0
  ELSE IF transferred_bytes * 100 < 0 THEN 0
  ELSE IF transferred_bytes * 100 > 100 * Max(1, total_bytes) THEN 100
  ELSE (transferred_bytes * 100) \div Max(1, total_bytes)

\* update_progress storing the value as it comes.
BytesUnclamped(value, total_bytes) == value

\* new_transferred = max(0, min(int(value), self.total_bytes)), line 55.
BytesClamped(value, total_bytes) == Max(0, Min(value, total_bytes))

InitTracker ==
  /\ impl = "library"
  /\ now = 0
  /\ current_process = 0
  /\ child = [r \in Runs |-> NoChild]
  /\ run = [r \in Runs |-> NoRun]
  /\ current_transfer_id = 0
  /\ transfer_animation_job = FALSE
  /\ status_label = [msg |-> "ready", by |-> 0, stale |-> FALSE]
  /\ button = "transfer"
  /\ cancel = NoCancel
  /\ nstarted = 0
  /\ ncancels = 0
  /\ dedup = NoDedup /\ parsing = NoParsing
  /\ after_queue = <<>> /\ delivered = <<>>
  /\ ops = NoOps
  /\ tracker = NoTracker
  /\ stalled = 0

\* start_tracking(total_bytes), progress_tracker.py:38-45.
start_tracking(total_bytes) ==
  /\ tracker' = [tracker EXCEPT !.pc = "tracking",
                   !.total_bytes = Max(0, total_bytes), !.transferred_bytes = 0]
  /\ UNCHANGED <<appvars, dedup, parsing, tkvars, ops, stalled>>

\* update_progress(value), progress_tracker.py:47-78: bytes so far when
\* total_bytes > 0, a percentage handed to the callback otherwise.
update_progress(value) ==
  /\ tracker.calls < MaxUpdates
  /\ IF tracker.total_bytes > 0
     THEN LET new_transferred == BytesClamped(value, tracker.total_bytes)
          IN tracker' = [tracker EXCEPT !.transferred_bytes = new_transferred,
                           !.calls = @ + 1, !.reported = value,
                           !.callback = get_progress_percentage(tracker.total_bytes, new_transferred)]
     ELSE tracker' = [tracker EXCEPT !.calls = @ + 1, !.reported = value,
                        !.callback = value]
  /\ UNCHANGED <<appvars, dedup, parsing, tkvars, ops, stalled>>

\* reset(), progress_tracker.py:125-131.
TrackerReset ==
  /\ tracker.pc = "tracking"
  /\ tracker' = [tracker EXCEPT !.pc = "idle", !.total_bytes = 0, !.transferred_bytes = 0]
  /\ UNCHANGED <<appvars, dedup, parsing, tkvars, ops, stalled>>

NextTracker ==
  \/ \E total_bytes \in Totals : start_tracking(total_bytes)
  \/ \E value \in Values : update_progress(value)
  \/ TrackerReset

SpecTracker == InitTracker /\ [][NextTracker]_vars

(* ------------------------------ claims -------------------------------- *)
\* The run r is inside the executor (reading, or back from it with its
\* result not yet taken by the worker thread).
InExecutor(r) == run[r].pc \in {"read", "post"}

\* A step of the read loop of run r: one more line consumed.
LineStep(r) == run[r].pc = "read" /\ run'[r].line_count = run[r].line_count + 1

\* C1, its state part: while no line of the run carried an explicit
\* percentage, last_progress and the value last handed to the progress
\* callback stay within 0..95 unless the run ended on exit status 0, and a
\* run that ended on exit status 0 reported exactly 100.
C1_Capped ==
  \A r \in Runs :
    (InExecutor(r) /\ run[r].signals = 0) =>
      /\ 0 <= run[r].last_progress /\ run[r].last_progress <= TimeCap * Scale
      /\ IF run[r].ending = "exit0"
         THEN run[r].reported = 100 /\ run[r].returned = "true"
         ELSE 0 <= run[r].reported /\ run[r].reported <= TimeCap

\* C1, its step part: on a line without explicit percentage, in a run that had
\* none so far, neither last_progress nor the reported value decreases; the
\* final 100 on exit status 0 does not decrease it either.
C1_Step ==
  \A r \in Runs :
    (run[r].pc = "read" /\ run[r].signals = 0 /\ run'[r].signals = 0
       /\ run'[r].pc \in {"read", "post"}) =>
      /\ run'[r].last_progress >= run[r].last_progress
      /\ run'[r].reported >= run[r].reported

\* C1: for every sequence of output lines on which parse yields no signal,
\* the committed last_progress (and every value passed to the progress
\* callback) is non-decreasing and never exceeds 95 as long as the child has
\* not exited with status 0; exactly 100 is reported once that exit is seen.
C1_NoSignalMonotoneCapped == [](C1_Capped) /\ [][C1_Step]_vars

\* C1 witness: a run of more than a hundred lines without explicit percentage
\* whose estimate climbed to the cap of 95 and which then ended on exit
\* status 0 with 100 reported.
C1_Witness ==
  \E r \in Runs :
    /\ run[r].pc = "post" /\ run[r].signals = 0
    /\ run[r].line_count > LargeTransferLines
    /\ run[r].last_progress = TimeCap * Scale
    /\ run[r].ending = "exit0" /\ run[r].reported = 100

\* C2 as written: for any mix of explicit and heuristic lines the committed
\* last_progress never decreases and always lies within [0, 100].
C2_NeverDecreases ==
  /\ [](\A r \in Runs : InExecutor(r) =>
          0 <= run[r].last_progress /\ run[r].last_progress <= 100 * Scale)
  /\ [][\A r \in Runs : LineStep(r) =>
          run'[r].last_progress >= run[r].last_progress]_vars

\* C2 amended: last_progress always lies within [0, 100]; a line without
\* explicit percentage never lowers it; a line with an explicit percentage
\* sets it to that percentage, higher or lower than the value before.
C2_ExplicitOverrides ==
  /\ [](\A r \in Runs : InExecutor(r) =>
          0 <= run[r].last_progress /\ run[r].last_progress <= 100 * Scale)
  /\ [][\A r \in Runs : LineStep(r) /\ impl = "legacy" =>
          IF run'[r].pct = None
          THEN run'[r].last_progress >= run[r].last_progress
          ELSE /\ run'[r].last_progress = run'[r].pct * Scale
               /\ run'[r].reported = run'[r].pct]_vars

\* C2 witness: a run that mixed both kinds of lines: an explicit percentage
\* was seen, the heuristic raised the estimate above it afterwards, and the
\* line just read carried an explicit percentage below that estimate, which
\* last_progress now equals.
C2_Witness ==
  \E r \in Runs :
    /\ run[r].pc = "read" /\ run[r].signals = 1 /\ run[r].lowered
    /\ run[r].pct # None /\ run[r].last_progress = run[r].pct * Scale

\* The run r is over: the executor returned to the worker thread.
Ended(r) == run[r].pc \in {"post", "done"} /\ run[r].ending # "stale"

\* The child of run r was ended by a signal (SIGTERM -15, SIGKILL -9).
EndedBySignal(c) == child[c].state = "exited" /\ child[c].returncode \in {-15, -9}

\* The worker thread of run r is over.
ThreadOver(r) == run[r].pc \in {"done", "dead"}

\* C11: a started transfer whose worker thread is over, and which no cancel
\* and no newer start has superseded, has handed its caller a terminal
\* result (success or failure): nothing more can come once the thread is over.
C11_EveryTransferEnds ==
  \A r \in Runs :
    (ThreadOver(r) /\ run[r].transfer_id = current_transfer_id) =>
      run[r].returned \in {"true", "false"}

\* The step is the return of a cancel_transfer of the caller.
CancelDone ==
  \/ cancel.pc = "return" /\ cancel'.pc = "idle"
  \/ impl = "manager" /\ ncancels' # ncancels

\* C13, its step part: the counter never decreases; a start and a cancel
\* each add exactly one; nothing else changes it; the run a start creates
\* carries the value the start minted.
C13_Step ==
  /\ current_transfer_id' >= current_transfer_id
  /\ nstarted' # nstarted =>
       /\ current_transfer_id' = current_transfer_id + 1
       /\ run'[nstarted'].transfer_id = current_transfer_id'
  /\ CancelDone => current_transfer_id' = current_transfer_id + 1
  /\ current_transfer_id' # current_transfer_id => (nstarted' # nstarted \/ CancelDone)

\* C13, its state part: no two started runs carry the same generation.
C13_Distinct ==
  \A r, q \in Runs :
    (r # q /\ run[r].pc # "idle" /\ run[q].pc # "idle") =>
      run[r].transfer_id # run[q].transfer_id

\* C13: the transfer generation counter never decreases: every
\* start_transfer and every cancel_transfer increases it by exactly one, and
\* no two started runs are given the same generation.
C13_GenerationMonotone == [](C13_Distinct) /\ [][C13_Step]_vars

\* C13 witness: two transfers were started and a cancel returned in between
\* or after: the counter stands at three and the two runs carry different
\* generations.
C13_Witness ==
  /\ impl = "legacy"
  /\ nstarted = 2 /\ ncancels = 1 /\ cancel.pc = "idle"
  /\ current_transfer_id = 3
  /\ run[1].transfer_id # run[2].transfer_id

\* C3: when the child exited with status 0 the run's last progress report is
\* exactly 100 and the run returns success, whatever lines preceded; when it
\* exited with a non-zero status the run returns failure and its last status
\* message is the one carrying the exit code.
C3_ExitStatusDecides ==
  \A r \in Runs :
    (Ended(r) /\ child[r].state = "exited"
       /\ run[r].ending \notin {"spawn_error", "stream_error"}) =>
      IF child[r].returncode = 0
      THEN run[r].reported = 100 /\ run[r].returned = "true"
      ELSE run[r].returned = "false" /\ run[r].last_status = "failed"

\* C4: the status label never shows a message that a run wrote through its
\* callback after the current generation had moved past that run's.
C4_StaleCallbacksDiscarded == ~status_label.stale

\* The step of cancel_transfer that finds no handle, or finds by poll() that
\* the held child has exited, is its last: it decides False, raises nothing,
\* signals no child and leaves the slot empty.
C5_Step ==
  LET quiet == /\ cancel'.pc = "return"
               /\ ~cancel'.cancelled /\ ~cancel'.raised
               /\ cancel'.terminated = 0 /\ cancel'.killed = 0
               /\ child' = child
               /\ current_process' = 0
  IN /\ (cancel.pc = "idle" /\ cancel'.pc # "idle" /\ current_process = 0) => quiet
     /\ (cancel.pc = "poll" /\ cancel'.pc # "poll" /\ current_process # 0
           /\ child[current_process].state = "exited") => quiet

\* C5: cancel() called when no child handle is held, or when the held child
\* has already exited (its poll returns an exit code), returns false, sends
\* neither terminate nor kill, does not raise and leaves the slot empty.
C5_NothingToCancel == [][C5_Step]_vars

\* C5 witness: cancel_transfer has just returned False because poll() found
\* the held child exited; no signal was sent and the slot is empty.
C5_Witness ==
  /\ cancel.pc = "return" /\ cancel.found = "exited"
  /\ ~cancel.cancelled /\ cancel.terminated = 0 /\ current_process = 0
  /\ \E c \in Runs : child[c].state = "exited" /\ ~child[c].sigterm

\* C6: within a cancel of a running child, kill comes only after terminate
\* and only once the grace period has run out; True is returned only after
\* a wait saw the child exited; and a cancel that sent terminate to a running
\* child of a run that met no error of its own returns True.
C6_TerminateWaitKill ==
  /\ cancel.killed # 0 => cancel.terminated # 0
  /\ cancel.pc \in {"kill", "wait_killed"} =>
       cancel.terminated # 0 /\ now - cancel.wait_start >= GracePeriod
  /\ cancel.cancelled =>
       cancel.terminated # 0 /\ cancel.waited # 0 /\ child[cancel.waited].state = "exited"
  /\ (cancel.pc = "return" /\ cancel.signalled
        /\ run[cancel.terminated].ending \in {"none", "exitN"}) => cancel.cancelled

\* C7: after every return of cancel_transfer and after every end of a run the
\* handle slot was left empty by it.
C7_SlotEmptyAfterReturn ==
  /\ \A r \in Runs : Ended(r) => run[r].handle_after = 0
  /\ cancel.pc = "return" => cancel.handle_after = 0

\* C8: no run spawned its child while the slot held a live child, and at no
\* time is more than one child alive.
C8_OneLiveChild ==
  /\ \A r \in Runs : run[r].spawned_over = 0
  /\ Cardinality({c \in Runs : child[c].state = "running"}) <= 1

\* C9: cancel_transfer returns True only when the child whose exit it waited
\* for was ended by its terminate or kill signal.
C9_TrueOnlyIfSignalEnded ==
  (cancel.pc = "return" /\ cancel.cancelled) =>
    (cancel.waited # 0 /\ EndedBySignal(cancel.waited))

\* C10: a run that met no error of its own and whose child was ended by the
\* signal of a cancel delivers no failure or error status and no failure
\* result.
C10_CancelledIsNotFailure ==
  \A r \in Runs :
    (EndedBySignal(r) /\ Ended(r)
       /\ run[r].ending \notin {"stream_error", "attribute_error"}) =>
      run[r].last_status \notin {"failed", "error"} /\ run[r].returned # "false"

\* The content digest behind what hashing a file gave, as a number: 0 when
\* no digest was obtained.
DigestValue(kind) ==
  CASE kind \in {"h1", "H1"} -> 1
    [] kind = "h2" -> 2
    [] OTHER -> 0

\* The content digest obtained for a source path / a target path of the call.
SourceDigest(p) ==
  IF dedup.is_remote_source
  THEN IF dedup.adb_command_runner THEN DigestValue(dedup.remote_files[p]) ELSE 0
  ELSE DigestValue(dedup.local_files[p])

TargetDigest(p) ==
  IF dedup.is_remote_target
  THEN IF dedup.adb_command_runner THEN DigestValue(dedup.remote_files[p]) ELSE 0
  ELSE DigestValue(dedup.local_files[p])

\* The source path p has a digest and some target file has the same one.
MatchesATarget(p) ==
  /\ SourceDigest(p) # 0
  /\ \E j \in DOMAIN dedup.target_files :
       TargetDigest(dedup.target_files[j]) = SourceDigest(p)

\* How many entries of the list are the path p.
Occurrences(list, p) == Cardinality({i \in DOMAIN list : list[i] = p})

\* C14: find_duplicate_files partitions the source list in source order: the
\* duplicates are exactly the source entries whose digest was computed and
\* equals the digest of some target file, whatever the names, the files to
\* transfer are the other entries, and every entry is in exactly one list.
C14_PartitionInSourceOrder ==
  dedup.pc = "planned" =>
    /\ dedup.duplicate_files =
         SelectSeq(dedup.source_files, LAMBDA p : MatchesATarget(p))
    /\ dedup.files_to_transfer =
         SelectSeq(dedup.source_files, LAMBDA p : ~MatchesATarget(p))
    /\ \A p \in Paths :
         /\ Occurrences(dedup.source_files, p) =
              Occurrences(dedup.duplicate_files, p)
                + Occurrences(dedup.files_to_transfer, p)
         /\ Occurrences(dedup.duplicate_files, p) = 0
              \/ Occurrences(dedup.files_to_transfer, p) = 0

\* A plan with a duplicate under another name, found across the two sides
\* and across the case of the printed digest, and a file to transfer.
C14_Witness ==
  /\ dedup.pc = "planned"
  /\ ~dedup.is_remote_source /\ dedup.is_remote_target
  /\ dedup.source_files = <<"b.txt", "a.txt">>
  /\ dedup.target_files = <<"b.txt">>
  /\ dedup.local_files["a.txt"] = "h1" /\ dedup.local_files["b.txt"] = "h2"
  /\ dedup.remote_files["b.txt"] = "H1"
  /\ dedup.duplicate_files = <<"a.txt">>
  /\ dedup.files_to_transfer = <<"b.txt">>

\* C15: a digest failure never aborts planning: the call returns a plan, a
\* source file without a digest is in files_to_transfer and not among the
\* duplicates, a target file without a digest adds nothing to the target
\* digest set, and the two lists together cover every source entry.
C15_DigestFailureNeverAborts ==
  /\ dedup.pc # "raised"
  /\ dedup.pc = "planned" =>
       /\ \A i \in DOMAIN dedup.source_files :
            SourceDigest(dedup.source_files[i]) = 0 =>
              /\ Occurrences(dedup.files_to_transfer, dedup.source_files[i])
                   = Occurrences(dedup.source_files, dedup.source_files[i])
              /\ Occurrences(dedup.duplicate_files, dedup.source_files[i]) = 0
       /\ NoDigest \notin dedup.target_hash_values
       /\ {DigestValue(h) : h \in dedup.target_hash_values} =
            {TargetDigest(dedup.target_files[j]) :
               j \in DOMAIN dedup.target_files} \ {0}
       /\ Len(dedup.files_to_transfer) + Len(dedup.duplicate_files)
            = Len(dedup.source_files)

\* A plan made although a source file could not be read and a target file
\* was missing; the readable source file is still found to be a duplicate.
C15_Witness ==
  /\ dedup.pc = "planned"
  /\ ~dedup.is_remote_source /\ ~dedup.is_remote_target
  /\ dedup.source_files = <<"a.txt", "b.txt">>
  /\ dedup.local_files["a.txt"] = "unreadable"
  /\ dedup.local_files["b.txt"] = "h1"
  /\ dedup.target_files = <<"a.txt", "b.txt">>
  /\ dedup.files_to_transfer = <<"a.txt">>
  /\ dedup.duplicate_files = <<"b.txt">>

\* The size of the duplicate at index i on the side the call names: the
\* device's answer needs a runner to be obtained.
DeterminedSize(i) ==
  IF dedup.is_remote
  THEN IF dedup.adb_command_runner
       THEN dedup.remote_stat[dedup.duplicate_files[i]] ELSE None
  ELSE dedup.local_stat[dedup.duplicate_files[i]]

\* The duplicates whose size could be determined.
Determined == {i \in DOMAIN dedup.duplicate_files : DeterminedSize(i) # None}

RECURSIVE SumOfSizes(_)
SumOfSizes(indices) ==
  IF indices = {} THEN 0
  ELSE LET i == CHOOSE j \in indices : TRUE
       IN DeterminedSize(i) + SumOfSizes(indices \ {i})

\* C16: calculate_transfer_savings returns the sum of the sizes and the
\* count of exactly the duplicates whose size could be determined; the other
\* duplicates add nothing, and all of them stay out of the transfer set.
C16_SavingsOverDeterminedSizes ==
  dedup.pc = "saved" =>
    /\ dedup.bytes_saved = SumOfSizes(Determined)
    /\ dedup.files_saved = Cardinality(Determined)

\* The same statement for the calls that name the local side or bring a
\* runner.
SavingsWithRunner ==
  (dedup.pc = "saved" /\ (dedup.is_remote => dedup.adb_command_runner)) =>
    /\ dedup.bytes_saved = SumOfSizes(Determined)
    /\ dedup.files_saved = Cardinality(Determined)

\* Saving leaves the two lists of the plan as they were.
SavingsKeepPlan ==
  [][dedup.pc = "planned" =>
       /\ dedup'.duplicate_files = dedup.duplicate_files
       /\ dedup'.files_to_transfer = dedup.files_to_transfer]_vars

\* What the k-th pattern of parse_progress captures on the parsed line, in
\* the order of the source: the percentage as written (1-4, 6), the
\* percentage a/b gives (5, none for a zero denominator), 100 for the bytes
\* marker (7); None when the pattern does not match.
Captured(k) ==
  LET text_line == parsing.text_line
      f == SearchFraction(text_line)
  IN CASE k = 1 -> SearchParen(text_line)
       [] k = 2 -> SearchComplete(text_line)
       [] k = 3 -> SearchTransferred(text_line)
       [] k = 4 -> SearchFiles(text_line)
       [] k = 5 -> IF f # 0 /\ text_line[f].b > 0
                   THEN (text_line[f].a * 100) \div text_line[f].b ELSE None
       [] k = 6 -> IF SearchTransferring(text_line)
                   THEN SearchPercent(text_line) ELSE None
       [] k = 7 -> IF SearchBytes(text_line) THEN 100 ELSE None

\* The patterns that match the parsed line, and the first of them.
Matching == {k \in 1..7 : Captured(k) # None}
FirstMatching == CHOOSE k \in Matching : \A j \in Matching : k <= j

\* No piece of the line carries a percentage, a fraction or the bytes marker.
PlainLine ==
  \A i \in DOMAIN parsing.text_line :
    parsing.text_line[i].kind \in {"word", "files", "transferring"}

\* The line carries fractions, the first with a zero denominator, and
\* nothing else a pattern could match.
ZeroFractionLine ==
  /\ \A i \in DOMAIN parsing.text_line :
       parsing.text_line[i].kind \in {"word", "files", "transferring", "fraction"}
  /\ \E i \in DOMAIN parsing.text_line :
       /\ parsing.text_line[i].kind = "fraction"
       /\ parsing.text_line[i].b = 0
       /\ \A j \in 1..(i - 1) : parsing.text_line[j].kind # "fraction"

\* C17: parse_progress is total: for every line it returns None or an
\* integer in 0..100 and does not raise; a fraction with a zero denominator
\* gives None, and a line that matches no pattern gives None, not 0.
C17_ParseProgressTotal ==
  /\ parsing.pc \in {"idle", "args", "done"}
  /\ parsing.pc = "done" =>
       /\ parsing.result = None \/ parsing.result \in 0..100
       /\ ZeroFractionLine => parsing.result = None
       /\ PlainLine => parsing.result = None

\* "0/0 done" has been parsed and gave no signal.
C17_Witness ==
  /\ parsing.pc = "done"
  /\ parsing.text_line = <<Piece("fraction", 0, 0), Piece("word", 0, 0)>>
  /\ parsing.result = None

\* C18: every extracted value is clamped into [0,100]: a matched percentage
\* above 100 gives 100, a fraction a/b with a > b > 0 gives 100, and None is
\* returned only when no pattern matches.
C18_ParsedValuesClamped ==
  parsing.pc = "done" =>
    /\ parsing.result = None => Matching = {}
    /\ (Matching # {} /\ Captured(FirstMatching) > 100) =>
         parsing.result = 100

\* The part of C18 about fractions: a first-matching a/b with a > b > 0
\* gives 100.
FractionAboveOneIs100 ==
  (parsing.pc = "done" /\ Matching # {} /\ FirstMatching = 5
     /\ Captured(5) > 100) => parsing.result = 100

\* C19: when a line matches more than one of the seven patterns, the value
\* returned is that of the pattern that comes first in the order: (NN%),
\* NN% complete, transferred NN%, N files pulled ... (NN%), A/B,
\* transferring with NN%, (N bytes.
C19_FirstPatternWins ==
  (parsing.pc = "done" /\ Cardinality(Matching) >= 2) =>
    parsing.result = Min(100, Max(0, Captured(FirstMatching)))

\* The same statement for the lines whose written percentages are all in
\* 0..100.
FirstPatternWinsInRange ==
  (parsing.pc = "done" /\ Cardinality(Matching) >= 2
     /\ \A i \in DOMAIN parsing.text_line :
          parsing.text_line[i].kind # "fraction" =>
            parsing.text_line[i].a <= 100) =>
    parsing.result = Min(100, Captured(FirstMatching))

\* C20: a transfer run is never ended by a timer: it ends when the child
\* exits by itself, on a stream error or when cancel is called, and no child
\* is killed except by a cancel after its grace period.
C20_NoTimerEndsARun ==
  \A r \in Runs :
    /\ run[r].ending # "timeout"
    /\ child[r].sigkill => (ncancels > 0 /\ child[r].sigterm)

MustRefuse ==
  \/ ops.op \in {"pull_file", "pull_folder"} /\ ops.seen \in {"file", "dir"}
  \/ ops.op = "push_file" /\ ops.seen \in {"absent", "dir"}
  \/ ops.op = "push_folder" /\ ops.seen \in {"absent", "file"}

\* C21: an ADBFileTransfer transfer method that has to refuse its local path
\* returns False without invoking adb; otherwise it invokes adb exactly once
\* and returns True iff the exit code is 0.
C21_RefuseOrRunOnce ==
  (ops.pc = "done" /\ ops.seen # "none") =>
    IF MustRefuse
    THEN ops.invoked = 0 /\ ~ops.result
    ELSE ops.invoked = 1 /\ (ops.result <=> ops.returncode = 0)

\* push_folder of an existing directory ran adb once, adb exited with 1 and
\* the method returned False.
C21_Witness ==
  /\ ops.pc = "done" /\ ops.layer = "transfer"
  /\ ops.op = "push_folder" /\ ops.seen = "dir"
  /\ ops.invoked = 1 /\ ops.returncode = 1 /\ ~ops.result

\* C28: ADBManager.pull_folder for a destination that does not exist
\* beforehand invokes adb pull exactly once and succeeds iff it exits with 0.
C28_ManagerPullFolderRuns ==
  (ops.pc = "done" /\ ops.layer = "manager" /\ ops.op = "pull_folder"
     /\ ops.local0 = "absent" /\ ops.makedirs_ok) =>
    ops.invoked = 1 /\ (ops.result <=> ops.returncode = 0)

\* Some path argument of the call fails sanitize_android_path.
SomePathFails == \E i \in 1..Len(ops.paths) : sanitize_android_path_raises(ops.paths[i])

\* The device id the call is made for fails validate_device_id.
DeviceFails ==
  LET target_device == TargetDevice(ops.device_id, ops.selected_device)
  IN Truthy(target_device) /\ validate_device_id_raises(target_device)

\* C22: a call of list_files, get_file_info, delete_file, delete_folder,
\* create_folder or move_item with a path that fails sanitize_android_path
\* or a device id that fails validate_device_id never invokes the command
\* runner and returns the operation's failure value.
C22_RejectedNeverRuns ==
  ((SomePathFails \/ DeviceFails) =>
     /\ ops.pc # "adb" /\ ops.invoked = 0
     /\ ops.pc = "done" =>
          ops.result = FailureValue(ops.op, IF SomePathFails THEN "path" ELSE "device"))
  /\ (ops.pc = "adb" => \A i \in 1..Len(ops.args) : ~sanitize_android_path_raises(ops.args[i]))

\* move_item with a good old_path and a new_path holding ";" was rejected.
C22_Witness ==
  /\ ops.pc = "done" /\ ops.op = "move_item"
  /\ ops.paths = <<(<<"/", "a">>), (<<"a", ";">>)>>
  /\ ops.invoked = 0 /\ ops.result = "False, Invalid path"

\* C23: after start_tracking and any sequence of update_progress calls,
\* 0 <= transferred_bytes <= total_bytes, get_progress_percentage() lies in
\* [0,100], and it is 0 whenever total_bytes <= 0.
C23_TrackerWithinBounds ==
  /\ 0 <= tracker.transferred_bytes
  /\ tracker.transferred_bytes <= tracker.total_bytes
  /\ get_progress_percentage(tracker.total_bytes, tracker.transferred_bytes) \in 0..100
  /\ tracker.total_bytes <= 0 =>
       get_progress_percentage(tracker.total_bytes, tracker.transferred_bytes) = 0
  /\ tracker.total_bytes > 0 =>
       get_progress_percentage(tracker.total_bytes, tracker.transferred_bytes) * tracker.total_bytes
         <= 100 * tracker.transferred_bytes

\* After start_tracking(MaxTotal), update_progress of more than the total
\* left transferred_bytes at the total.
C23_Witness ==
  /\ tracker.pc = "tracking" /\ tracker.total_bytes = MaxTotal
  /\ tracker.calls > 0 /\ tracker.reported > MaxTotal
  /\ tracker.transferred_bytes = MaxTotal /\ tracker.callback = 100

\* C29: whatever tracker operations came before, a percentage given to
\* update_progress reaches the progress callback unchanged.
C29_PercentageReachesCallback ==
  (tracker.calls > 0 /\ tracker.reported \in 0..100) =>
    tracker.callback = tracker.reported

\* C24: a line with an explicit percentage s sets last_progress to s, lower
\* or not, and last_update_time to the time of the line; last_update_time
\* never moves back, and a line without percentage read less than 2 s after
\* last_update_time changes last_progress through the activity branch only.
C24_ExplicitRestartsInterval ==
  [][\A r \in Runs : (LineStep(r) /\ impl = "legacy") =>
       /\ run'[r].pct # None =>
            /\ run'[r].last_progress = run'[r].pct * Scale
            /\ run'[r].last_update_time = now
       /\ run'[r].last_update_time >= run[r].last_update_time
       /\ (/\ run'[r].pct = None
           /\ now - run[r].last_update_time < TimeInterval
           /\ run'[r].last_progress # run[r].last_progress) =>
            /\ ActivityBranch(run'[r].line_count, run[r].last_progress)
            /\ run'[r].last_progress
                 = ActivityCandidate(run'[r].line_count, run[r].last_progress)]_vars

\* A line read 2 s or more into the run carried "0% complete" and took
\* last_progress down to 0, with last_update_time the time of that line.
C24_Witness ==
  \E r \in Runs :
    /\ run[r].pc = "read" /\ run[r].pct = 0 /\ run[r].lowered
    /\ run[r].last_progress = 0
    /\ run[r].last_update_time = now /\ now - run[r].start_time >= TimeInterval

\* The time-based condition of the loop on the run record r at time t.
TimeConditionHolds(r, t) ==
  t - r.last_update_time >= TimeInterval /\ r.last_progress < TimeCap * Scale

\* The candidate of the time-based branch for the line that follows the
\* record r at time t, in 1/Scale percent.
CandidateByTime(r, t) ==
  IF r.line_count + 1 > LargeTransferLines
  THEN Min(Min(((r.line_count + 1) * Scale) \div ActivityDivisor, MaxActivityFactor * Scale)
             + Min(((t - r.start_time) * Scale) \div TimeDivisor, MaxTimeFactor * Scale),
           TimeCap * Scale)
  ELSE Min(r.last_progress + TimeIncrement * Scale, TimeCap * Scale)

\* C25: on a line without percentage for which the time-based condition
\* holds, the outcome is that of the time-based branch alone: its candidate
\* is committed if greater than last_progress, and otherwise the line changes
\* neither last_progress nor last_update_time, multiple of 50 or not. The
\* activity-based candidate is committed only when the condition fails.
C25_ActivityOnlyAfterTime ==
  [][\A r \in Runs : (LineStep(r) /\ impl = "legacy" /\ run'[r].pct = None) =>
       IF TimeConditionHolds(run[r], now)
       THEN IF CandidateByTime(run[r], now) > run[r].last_progress
            THEN /\ run'[r].last_progress = CandidateByTime(run[r], now)
                 /\ run'[r].last_update_time = now
            ELSE /\ run'[r].last_progress = run[r].last_progress
                 /\ run'[r].last_update_time = run[r].last_update_time
       ELSE IF ActivityBranch(run'[r].line_count, run[r].last_progress)
            THEN /\ run'[r].last_progress
                      = ActivityCandidate(run'[r].line_count, run[r].last_progress)
                 /\ run'[r].last_update_time = now
            ELSE /\ run'[r].last_progress = run[r].last_progress
                 /\ run'[r].last_update_time = run[r].last_update_time]_vars

\* A line whose count is a multiple of 50 above 100 was read while the
\* time-based condition held and last_progress was below 90, and nothing
\* changed.
C25_Witness ==
  \E r \in Runs :
    /\ run[r].pc = "read" /\ run[r].pct = None /\ stalled > 0
    /\ run[r].line_count > LargeTransferLines
    /\ run[r].line_count % ActivityWindow = 0
    /\ run[r].last_progress < ActivityCap * Scale
    /\ now - run[r].last_update_time >= TimeInterval

\* C26: in a pull-folder run, while last_progress is below 90, fewer than
\* fifty lines in a row pass without a rise of last_progress: it strictly
\* increases within the next 50 no-signal lines.
C26_ForwardMotion ==
  \A r \in Runs :
    (run[r].pc = "read" /\ run[r].last_progress < ActivityCap * Scale) =>
      stalled < ActivityWindow

C30_CancelEndsTransferInFlight ==
  [][\A r \in Runs :
       (/\ ncancels' = ncancels + 1
        /\ run[r].pc = "communicate" /\ child[r].state = "running") =>
         /\ cancel'.cancelled
         /\ child'[r].sigterm \/ child'[r].state = "exited"]_vars
====
